---- MODULE Spec2Model ----
(***************************************************************************)
(* Verification model of rosu-pp-performanceplus.                          *)
(*                                                                         *)
(*  - OsuPerformance (src/osu/performance/mod.rs): the builder fields and  *)
(*    generate_state, the hitresult synthesis.  Floating point values are  *)
(*    modelled as exact rationals: an accuracy is acc / AccDen, a distance *)
(*    is a pair [num, den] compared by cross multiplication.               *)
(*  - Catch/TaikoGradualPerformance (src/*/performance/gradual.rs): the    *)
(*    next / nth / last adapters on top of a gradual difficulty cursor.    *)
(*                                                                         *)
(* Option<T> is modelled as a sequence: <<>> is None, <<x>> is Some(x).    *)
(***************************************************************************)
EXTENDS Integers, Sequences, FiniteSets, TLC

VARIABLES perf, ret, gradual, out, calls, uniform, lastArg,
          conv, convOut, diff, diffOut, skillRun, doubles

vars == <<perf, ret, gradual, out, calls, uniform, lastArg,
          conv, convOut, diff, diffOut, skillRun, doubles>>

perfVars == <<perf, ret>>

gradVars == <<gradual, out, calls, uniform, lastArg>>

convVars == <<conv, convOut>>

diffVars == <<diff, diffOut>>

skillVars == <<skillRun, doubles>>

-----------------------------------------------------------------------------
(* Bounds of the model *)

\* number of hit objects of the attributes given to the performance builder
MaxObjects == 5

\* number of hit objects of the larger attributes used for the accuracy search
\* with no fixed count (the priority shift needs four 50s or five 100s)
BigObjects == 9

\* accuracies are the fractions 0/AccDen .. AccDen/AccDen
AccDen == 16

-----------------------------------------------------------------------------
(* Integer helpers *)

\* TLC's integers are 32 bit wide, so the machine words are scaled down: a u32
\* has 16 bits and a usize 24 bits here.  What the code relies on is kept: a
\* usize is wider than a u32, usize::MAX truncates to u32::MAX, and every count
\* of the model is far below either.
U32_BITS == 16

USIZE_BITS == 24

U32_MAX == 2 ^ U32_BITS - 1

USIZE_MAX == 2 ^ USIZE_BITS - 1

None == <<>>

Some(x) == <<x>>

IsSome(o) == o # <<>>

Unwrap(o) == o[1]

Min(a, b) == IF a <= b THEN a ELSE b

Max(a, b) == IF a >= b THEN a ELSE b

Abs(a) == IF a >= 0 THEN a ELSE -a

\* u32::saturating_sub
saturating_sub(a, b) == IF a >= b THEN a - b ELSE 0

\* Option::map_or(0, |n| cmp::min(n, bound))
map_or_min(o, bound) == IF IsSome(o) THEN Min(Unwrap(o), bound) ELSE 0

\* (p / q).floor() as u32 for q > 0: the cast saturates at 0 and u32::MAX
floor_as_u32(p, q) == Max(0, Min(p \div q, U32_MAX))

\* (p / q).ceil() as u32 for q > 0
ceil_as_u32(p, q) == Max(0, Min(-((-p) \div q), U32_MAX))

-----------------------------------------------------------------------------
(* accuracy and distances, as exact rationals *)

\* fn accuracy(n300, n100, n50, misses) -> f64
accuracy(n300, n100, n50, misses) ==
    IF n300 + n100 + n50 + misses = 0
    THEN [num |-> 0, den |-> 1]
    ELSE [num |-> 6 * n300 + 2 * n100 + n50,
          den |-> 6 * (n300 + n100 + n50 + misses)]

\* (acc - a).abs() for acc = accNum / AccDen
Dist(accNum, a) ==
    [num |-> Abs(accNum * a.den - a.num * AccDen), den |-> AccDen * a.den]

\* dist < best_dist; best_dist = None stands for f64::MAX / f64::INFINITY
DistLess(dist, best_dist) ==
    \/ best_dist = None
    \/ dist.num * Unwrap(best_dist).den < Unwrap(best_dist).num * dist.den

\* if dist < best_dist { best_dist = dist; (n300, n100, n50) = candidate }
Better(best, dist, n300, n100, n50) ==
    IF DistLess(dist, best.dist)
    THEN [dist |-> Some(dist), n300 |-> n300, n100 |-> n100, n50 |-> n50]
    ELSE best

-----------------------------------------------------------------------------
(* Floating point values.  Times and clock rates are exact rationals         *)
(* [num, den] in lowest terms with den > 0; ratings and pp values, which go  *)
(* through powf, sqrt and tanh, are kept as one of the classes "zero",       *)
(* "pos" (finite and > 0) and "nan".                                         *)

RECURSIVE GCD(_, _)
GCD(a, b) == IF b = 0 THEN a ELSE GCD(b, a % b)

\* the rational n / d in lowest terms, d # 0
Rat(n, d) ==
    LET g == GCD(Abs(n), Abs(d))
        sign == IF d < 0 THEN -1 ELSE 1
    IN [num |-> sign * (n \div g), den |-> sign * (d \div g)]

FromInt(n) == [num |-> n, den |-> 1]

\* a / b on f64
RatDiv(a, b) == Rat(a.num * b.den, a.den * b.num)

\* a - b on f64
RatSub(a, b) == Rat(a.num * b.den - b.num * a.den, a.den * b.den)

\* a * b on f64
RatMul(a, b) == Rat(a.num * b.num, a.den * b.den)

RatLess(a, b) == a.num * b.den < b.num * a.den

\* f64::max
RatMax(a, b) == IF RatLess(a, b) THEN b ELSE a

\* f64::min
RatMin(a, b) == IF RatLess(b, a) THEN b ELSE a

Zero == "zero"

Pos == "pos"

NaN == "nan"

\* a * b on the classes: NaN wins, 0.0 * NaN is NaN
FMul(a, b) ==
    IF a = NaN \/ b = NaN THEN NaN
    ELSE IF a = Zero \/ b = Zero THEN Zero
    ELSE Pos

\* a + b on the classes (no operand is negative)
FAdd(a, b) ==
    IF a = NaN \/ b = NaN THEN NaN
    ELSE IF a = Zero /\ b = Zero THEN Zero
    ELSE Pos

\* a / b on the classes: 0.0 / 0.0 is NaN; no x / 0.0 with x > 0 is computed
FDiv(a, b) ==
    IF a = NaN \/ b = NaN THEN NaN
    ELSE IF b = Zero THEN NaN
    ELSE a

\* f64::max: the other operand when one is NaN
FMax(a, b) ==
    IF a = NaN THEN b
    ELSE IF b = NaN THEN a
    ELSE IF a = Pos \/ b = Pos THEN Pos
    ELSE Zero

\* x.powf(e), x.sqrt() for e > 0 and x >= 0 or NaN: the class is kept
FPow(a) == a

\* f64::from(n) for a count n
FromCount(n) == IF n = 0 THEN Zero ELSE Pos

-----------------------------------------------------------------------------
(* The difficulty pipeline.  A map is the sequence of its hit objects, each  *)
(* a record [start_time, kind, end_time] with times in ms and non-decreasing *)
(* start times; a clock rate is a rational.                                  *)

DT == 64

HT == 256

Circle == "Circle"

Slider == "Slider"

Spinner == "Spinner"

\* a circle at time t
circle(t) == [start_time |-> t, kind |-> Circle, end_time |-> t]

\* OsuObject::end_time
end_time(h) == h.end_time

\* Mods::clock_rate: 1.5 for DT, 0.75 for HT and 1.0 otherwise
mods_clock_rate(mods) ==
    IF (mods \div DT) % 2 = 1 THEN Rat(3, 2)
    ELSE IF (mods \div HT) % 2 = 1 THEN Rat(3, 4)
    ELSE Rat(1, 1)

\* ModeDifficulty::get_clock_rate
get_clock_rate(d) ==
    IF IsSome(d.clock_rate) THEN Unwrap(d.clock_rate) ELSE mods_clock_rate(d.mods)

\* ModeDifficulty::get_passed_objects: usize::MAX when no limit was set
get_passed_objects(passed_objects) ==
    IF IsSome(passed_objects) THEN Unwrap(passed_objects) ELSE USIZE_MAX

\* x / clock_rate for a time x in ms
div_rate(x, clock_rate) == RatDiv(FromInt(x), clock_rate)

MIN_DELTA_TIME == 50

MIN_LAST_TWO_TIME == 100

\* OsuDifficultyObject::set_distances, the travel time
set_distances(this, last_object, clock_rate) ==
    IF last_object.kind = Circle THEN this.strain_time
    ELSE RatMax(RatDiv(RatSub(this.start_time, FromInt(end_time(last_object))),
                       clock_rate),
                FromInt(MIN_DELTA_TIME))

\* OsuDifficultyObject::new without the floor of last_two_strain_time
OsuDifficultyObject_new_no_last_two_floor(h, last_object, last_last_object, clock_rate, idx) ==
    LET delta_time == div_rate(h.start_time - last_object.start_time, clock_rate)
        this == [idx |-> idx, base |-> h,
                 start_time |-> div_rate(h.start_time, clock_rate),
                 delta_time |-> delta_time,
                 strain_time |-> RatMax(delta_time, FromInt(MIN_DELTA_TIME)),
                 last_two_strain_time |->
                     IF IsSome(last_last_object)
                     THEN div_rate(h.start_time - Unwrap(last_last_object).start_time,
                                   clock_rate)
                     ELSE FromInt(MIN_LAST_TWO_TIME),
                 travel_time |-> FromInt(0)]
    IN [this EXCEPT !.travel_time = set_distances(this, last_object, clock_rate)]

\* OsuDifficultyObject::new: the times of the object `h` after the object
\* `last_object`, with `last_last_object` the one before it, if any
OsuDifficultyObject_new(h, last_object, last_last_object, clock_rate, idx) ==
    LET delta_time == div_rate(h.start_time - last_object.start_time, clock_rate)
        start_time == div_rate(h.start_time, clock_rate)
        strain_time == RatMax(delta_time, FromInt(MIN_DELTA_TIME))
        last_two_strain_time ==
            IF IsSome(last_last_object)
            THEN RatMax(div_rate(h.start_time - Unwrap(last_last_object).start_time,
                                 clock_rate),
                        FromInt(MIN_LAST_TWO_TIME))
            ELSE FromInt(MIN_LAST_TWO_TIME)
        this == [idx |-> idx, base |-> h, start_time |-> start_time,
                 delta_time |-> delta_time, strain_time |-> strain_time,
                 last_two_strain_time |-> last_two_strain_time,
                 travel_time |-> FromInt(0)]
    IN [this EXCEPT !.travel_time = set_distances(this, last_object, clock_rate)]

\* convert_objects: the first `take` hit objects of the map
convert_objects(map, take) == SubSeq(map, 1, Min(Len(map), take))

\* create_difficulty_objects that stops one hit object early
create_difficulty_objects_short(d, osu_objects) ==
    IF get_passed_objects(d.passed_objects) = 0 \/ osu_objects = <<>> THEN <<>>
    ELSE [i \in 1 .. Len(osu_objects) - 2 |->
              OsuDifficultyObject_new(osu_objects[i + 1], osu_objects[i],
                                      IF i >= 2 THEN Some(osu_objects[i - 1]) ELSE None,
                                      get_clock_rate(d), i - 1)]

\* DifficultyValues::create_difficulty_objects: one difficulty object for each
\* hit object but the first, none at all when take = 0
create_difficulty_objects(d, osu_objects) ==
    IF get_passed_objects(d.passed_objects) = 0 \/ osu_objects = <<>> THEN <<>>
    ELSE [i \in 1 .. Len(osu_objects) - 1 |->
              OsuDifficultyObject_new(osu_objects[i + 1], osu_objects[i],
                                      IF i >= 2 THEN Some(osu_objects[i - 1]) ELSE None,
                                      get_clock_rate(d), i - 1)]

\* OsuSkills::new: nothing was processed yet
OsuSkills_new == [strain |-> 0, processed |-> <<>>, circle_count |-> 0]

\* Skill::process of every skill, abstracted to one strain: the strain decays
\* and the object's value 15000 / strain_time is added, so the order of the
\* objects matters; `processed` keeps the indices of the objects in the order
\* they were given, and circle_count is RhythmComplexity's
skill_process(skills, curr) ==
    [strain |-> (skills.strain * 45) \div 100
                    + (15000 * curr.strain_time.den) \div curr.strain_time.num,
     processed |-> Append(skills.processed, curr.idx),
     circle_count |-> skills.circle_count + (IF curr.base.kind = Circle THEN 1 ELSE 0)]

\* for hit_object in diff_objects.iter().take(take_diff_objects) { process }
RECURSIVE process_all(_, _, _, _)
process_all(skills, diff_objects, i, take_diff_objects) ==
    IF i > Min(take_diff_objects, Len(diff_objects)) THEN skills
    ELSE process_all(skill_process(skills, diff_objects[i]), diff_objects, i + 1,
                     take_diff_objects)

\* the number of objects of `osu_objects` of a kind
count_kind(osu_objects, kind) ==
    Cardinality({i \in 1 .. Len(osu_objects) : osu_objects[i].kind = kind})

\* the attributes convert_objects fills in: the object counts and the combo,
\* a slider's being its head and its end
convert_attrs(osu_objects) ==
    [n_circles |-> count_kind(osu_objects, Circle),
     n_sliders |-> count_kind(osu_objects, Slider),
     n_spinners |-> count_kind(osu_objects, Spinner),
     max_combo |-> Len(osu_objects) + count_kind(osu_objects, Slider)]

\* RhythmComplexity::as_difficulty_value: 1 + difficulty_total / circle_count
\* * tanh(circle_count / 50), which is 0.0 / 0.0 * 0.0 without a circle
rhythm_difficulty_value(skills) == IF skills.circle_count = 0 THEN NaN ELSE Pos

\* DifficultyValues::eval: the ratings, as classes, and the star rating, for
\* which the strain stands.  The one strain stands for the aim and the raw aim
\* skill alike, so (aim - raw_aim).max(0.0) is 0.0.
eval(attrs, skills) ==
    LET rating == FPow(FromCount(skills.strain))
    IN [stars |-> skills.strain,
        aim |-> rating, jump |-> rating, flow |-> rating, precision |-> Zero,
        speed |-> rating, stamina |-> rating,
        accuracy |-> FPow(rhythm_difficulty_value(skills)),
        n_circles |-> attrs.n_circles, n_sliders |-> attrs.n_sliders,
        n_spinners |-> attrs.n_spinners, max_combo |-> attrs.max_combo]

\* DifficultyValues::calculate: the skills after the difficulty objects of the
\* first `take` hit objects, and the attributes of these hit objects
DifficultyValues_calculate(d, map) ==
    LET take == get_passed_objects(d.passed_objects)
        osu_objects == convert_objects(map, take)
        diff_objects == create_difficulty_objects(d, osu_objects)
        take_diff_objects == saturating_sub(Min(Len(map), take), 1)
    IN [skills |-> process_all(OsuSkills_new, diff_objects, 1, take_diff_objects),
        attrs |-> convert_attrs(osu_objects),
        diff_objects |-> diff_objects]

\* osu::difficulty: DifficultyValues::calculate followed by eval
difficulty(d, map) ==
    LET values == DifficultyValues_calculate(d, map)
    IN eval(values.attrs, values.skills)

\* OsuDifficultyAttributes::n_objects
n_objects_of(attrs) == attrs.n_circles + attrs.n_sliders + attrs.n_spinners

\* GradualDifficulty::new: the cursor is before the first object
GradualDifficulty_new(d, map) ==
    [map |-> map, mods |-> d.mods, clock_rate |-> get_clock_rate(d),
     idx |-> 0, skill |-> OsuSkills_new]

\* feed the difficulty objects of the hit objects from + 1 .. to to the skills
RECURSIVE gradual_feed(_, _, _, _)
gradual_feed(g, skills, from, to) ==
    IF from >= to THEN skills
    ELSE gradual_feed(g,
                      IF from = 0 THEN skills
                      ELSE skill_process(skills,
                                         OsuDifficultyObject_new(
                                             g.map[from + 1], g.map[from],
                                             IF from >= 2 THEN Some(g.map[from - 1])
                                             ELSE None,
                                             g.clock_rate, from - 1)),
                      from + 1, to)

\* GradualDifficulty::nth: None once idx >= n_objects; else the cursor advances
\* by n + 1 objects, or by all that are left when fewer are left, and the
\* attributes of the objects passed so far are returned
GradualDifficulty_nth(g, n) ==
    IF g.idx >= Len(g.map) THEN [gradual |-> g, attrs |-> None]
    ELSE LET idx == g.idx + Min(n, Len(g.map) - g.idx - 1) + 1
             skill == gradual_feed(g, g.skill, g.idx, idx)
         IN [gradual |-> [g EXCEPT !.idx = idx, !.skill = skill],
             attrs |-> Some(eval(convert_attrs(SubSeq(g.map, 1, idx)), skill))]

-----------------------------------------------------------------------------
(* OsuPerformance::generate_state *)

BestCase == "BestCase"

WorstCase == "WorstCase"

\* `x as u32` on a usize: truncation to the low 32 bits
as_u32(x) == x % (U32_MAX + 1)

\* the numerator over AccDen of target_total = acc * f64::from(6 * n_objects)
target_total(acc, n_objects) == acc * (6 * n_objects)

\* for new100 in min_n100..=max_n100 { new50 = n_remaining - new100; .. }
RECURSIVE loop_n300_fixed(_, _, _, _, _, _, _)
loop_n300_fixed(new100, max_n100, acc, n300, misses, n_remaining, best) ==
    IF new100 > max_n100 THEN best
    ELSE LET new50 == n_remaining - new100
             dist == Dist(acc, accuracy(n300, new100, new50, misses))
         IN loop_n300_fixed(new100 + 1, max_n100, acc, n300, misses, n_remaining,
                            Better(best, dist, n300, new100, new50))

\* match arm (Some(_), None, None)
arm_n300_fixed(acc, n_objects, misses, n_remaining0, s) ==
    LET n300 == Min(s.n300, n_remaining0)
        n_remaining == n_remaining0 - n300
        raw_n100 == target_total(acc, n_objects) - AccDen * (n_remaining + 6 * n300)
        min_n100 == Min(n_remaining, floor_as_u32(raw_n100, AccDen))
        max_n100 == Min(n_remaining, ceil_as_u32(raw_n100, AccDen))
        best == loop_n300_fixed(min_n100, max_n100, acc, n300, misses, n_remaining,
                                [dist |-> None, n300 |-> n300, n100 |-> s.n100, n50 |-> s.n50])
    IN [n300 |-> best.n300, n100 |-> best.n100, n50 |-> best.n50]

\* for new300 in min_n300..=max_n300 { new50 = n_remaining - new300; .. }
RECURSIVE loop_n100_fixed(_, _, _, _, _, _, _)
loop_n100_fixed(new300, max_n300, acc, n100, misses, n_remaining, best) ==
    IF new300 > max_n300 THEN best
    ELSE LET new50 == n_remaining - new300
             curr_dist == Dist(acc, accuracy(new300, n100, new50, misses))
         IN loop_n100_fixed(new300 + 1, max_n300, acc, n100, misses, n_remaining,
                            Better(best, curr_dist, new300, n100, new50))

\* match arm (None, Some(_), None)
arm_n100_fixed(acc, n_objects, misses, n_remaining0, s) ==
    LET n100 == Min(s.n100, n_remaining0)
        n_remaining == n_remaining0 - n100
        raw_n300 == target_total(acc, n_objects) - AccDen * (n_remaining + 2 * n100)
        min_n300 == Min(n_remaining, floor_as_u32(raw_n300, 5 * AccDen))
        max_n300 == Min(n_remaining, ceil_as_u32(raw_n300, 5 * AccDen))
        best == loop_n100_fixed(min_n300, max_n300, acc, n100, misses, n_remaining,
                                [dist |-> None, n300 |-> s.n300, n100 |-> n100, n50 |-> s.n50])
    IN [n300 |-> best.n300, n100 |-> best.n100, n50 |-> best.n50]

\* for new300 in min_n300..=max_n300 { new100 = n_remaining - new300; .. }
RECURSIVE loop_n50_fixed(_, _, _, _, _, _, _)
loop_n50_fixed(new300, max_n300, acc, n50, misses, n_remaining, best) ==
    IF new300 > max_n300 THEN best
    ELSE LET new100 == n_remaining - new300
             curr_dist == Dist(acc, accuracy(new300, new100, n50, misses))
         IN loop_n50_fixed(new300 + 1, max_n300, acc, n50, misses, n_remaining,
                           Better(best, curr_dist, new300, new100, n50))

\* arm_n50_fixed with the misses left out of raw_n300
arm_n50_fixed_no_misses(acc, n_objects, misses, n_remaining0, s) ==
    LET n50 == Min(s.n50, n_remaining0)
        n_remaining == n_remaining0 - n50
        raw_n300 == target_total(acc, n_objects) + AccDen * n50
                        - AccDen * (2 * n_objects)
        min_n300 == Min(n_remaining, floor_as_u32(raw_n300, 4 * AccDen))
        max_n300 == Min(n_remaining, ceil_as_u32(raw_n300, 4 * AccDen))
        best == loop_n50_fixed(min_n300, max_n300, acc, n50, misses, n_remaining,
                               [dist |-> None, n300 |-> s.n300, n100 |-> s.n100, n50 |-> n50])
    IN [n300 |-> best.n300, n100 |-> best.n100, n50 |-> best.n50]

\* match arm (None, None, Some(_))
arm_n50_fixed(acc, n_objects, misses, n_remaining0, s) ==
    LET n50 == Min(s.n50, n_remaining0)
        n_remaining == n_remaining0 - n50
        raw_n300 == target_total(acc, n_objects) + AccDen * (2 * misses + n50)
                        - AccDen * (2 * n_objects)
        min_n300 == Min(n_remaining, floor_as_u32(raw_n300, 4 * AccDen))
        max_n300 == Min(n_remaining, ceil_as_u32(raw_n300, 4 * AccDen))
        best == loop_n50_fixed(min_n300, max_n300, acc, n50, misses, n_remaining,
                               [dist |-> None, n300 |-> s.n300, n100 |-> s.n100, n50 |-> n50])
    IN [n300 |-> best.n300, n100 |-> best.n100, n50 |-> best.n50]

\* inner loop of the arm (None, None, None): for new100 in min_n100..=max_n100
RECURSIVE loop_none_n100(_, _, _, _, _, _, _)
loop_none_n100(new100, max_n100, acc, new300, misses, n_remaining, best) ==
    IF new100 > max_n100 THEN best
    ELSE LET new50 == n_remaining - new300 - new100
             curr_dist == Dist(acc, accuracy(new300, new100, new50, misses))
         IN loop_none_n100(new100 + 1, max_n100, acc, new300, misses, n_remaining,
                           Better(best, curr_dist, new300, new100, new50))

\* outer loop of the arm (None, None, None): for new300 in min_n300..=max_n300
RECURSIVE loop_none_n300(_, _, _, _, _, _, _)
loop_none_n300(new300, max_n300, acc, n_objects, misses, n_remaining, best) ==
    IF new300 > max_n300 THEN best
    ELSE LET raw_n100 == target_total(acc, n_objects) - AccDen * (n_remaining + 5 * new300)
             min_n100 == Min(floor_as_u32(raw_n100, AccDen), n_remaining - new300)
             max_n100 == Min(ceil_as_u32(raw_n100, AccDen), n_remaining - new300)
         IN loop_none_n300(new300 + 1, max_n300, acc, n_objects, misses, n_remaining,
                           loop_none_n100(min_n100, max_n100, acc, new300, misses,
                                          n_remaining, best))

\* priority_shift whose WorstCase gains five 300s for five 100s
priority_shift_gain5(priority, s) ==
    IF priority = BestCase
    THEN LET n == Min(s.n300, s.n50 \div 4)
         IN [n300 |-> s.n300 - n, n100 |-> s.n100 + 5 * n, n50 |-> s.n50 - 4 * n]
    ELSE LET n == s.n100 \div 5
         IN [n300 |-> s.n300 + 5 * n, n100 |-> s.n100 - 5 * n, n50 |-> s.n50]

\* priority_shift whose BestCase turns 50s into 100s one for one
priority_shift_even(priority, s) ==
    IF priority = BestCase
    THEN LET n == Min(s.n300, s.n50 \div 4)
         IN [n300 |-> s.n300, n100 |-> s.n100 + 4 * n, n50 |-> s.n50 - 4 * n]
    ELSE LET n == s.n100 \div 5
         IN [n300 |-> s.n300 + n, n100 |-> s.n100 - 5 * n, n50 |-> s.n50 + 4 * n]

\* the priority shift that ends the arm (None, None, None)
priority_shift(priority, s) ==
    IF priority = BestCase
    THEN LET n == Min(s.n300, s.n50 \div 4)
         IN [n300 |-> s.n300 - n, n100 |-> s.n100 + 5 * n, n50 |-> s.n50 - 4 * n]
    ELSE LET n == s.n100 \div 5
         IN [n300 |-> s.n300 + n, n100 |-> s.n100 - 5 * n, n50 |-> s.n50 + 4 * n]

\* the double search of the arm (None, None, None), before the priority shift
search_none_fixed(acc, n_objects, misses, n_remaining, s) ==
    LET raw_n300 == target_total(acc, n_objects) - AccDen * n_remaining
        min_n300 == Min(n_remaining, floor_as_u32(raw_n300, 5 * AccDen))
        max_n300 == Min(n_remaining, ceil_as_u32(raw_n300, 5 * AccDen))
        best == loop_none_n300(min_n300, max_n300, acc, n_objects, misses, n_remaining,
                               [dist |-> None, n300 |-> s.n300, n100 |-> s.n100, n50 |-> s.n50])
    IN [n300 |-> best.n300, n100 |-> best.n100, n50 |-> best.n50]

\* match arm (None, None, None)
arm_none_fixed(acc, n_objects, misses, n_remaining, priority, s) ==
    priority_shift(priority, search_none_fixed(acc, n_objects, misses, n_remaining, s))

\* match arm (Some(_), Some(_), Some(_)) of the accuracy branch
arm_all_fixed(n_objects, misses, priority, s) ==
    LET remaining == saturating_sub(n_objects, s.n300 + s.n100 + s.n50 + misses)
    IN IF priority = BestCase
       THEN [s EXCEPT !.n300 = @ + remaining]
       ELSE [s EXCEPT !.n50 = @ + remaining]

\* the three match arms with exactly two counts fixed
arm_two_fixed(p, n_objects, misses, s) ==
    IF ~IsSome(p.n50)
    THEN [s EXCEPT !.n50 = saturating_sub(n_objects, s.n300 + s.n100 + misses)]
    ELSE IF ~IsSome(p.n100)
    THEN [s EXCEPT !.n100 = saturating_sub(n_objects, s.n300 + s.n50 + misses)]
    ELSE [s EXCEPT !.n300 = saturating_sub(n_objects, s.n100 + s.n50 + misses)]

\* number of the counts n300 / n100 / n50 the caller fixed
n_fixed(p) ==
    (IF IsSome(p.n300) THEN 1 ELSE 0) + (IF IsSome(p.n100) THEN 1 ELSE 0)
        + (IF IsSome(p.n50) THEN 1 ELSE 0)

\* if let Some(acc) = self.acc { match (self.n300, self.n100, self.n50) { .. } }
with_accuracy(p, n_objects, misses, n_remaining, s) ==
    LET acc == Unwrap(p.acc)
        priority == p.hitresult_priority
    IN IF n_fixed(p) = 3 THEN arm_all_fixed(n_objects, misses, priority, s)
       ELSE IF n_fixed(p) = 2 THEN arm_two_fixed(p, n_objects, misses, s)
       ELSE IF IsSome(p.n300) THEN arm_n300_fixed(acc, n_objects, misses, n_remaining, s)
       ELSE IF IsSome(p.n100) THEN arm_n100_fixed(acc, n_objects, misses, n_remaining, s)
       ELSE IF IsSome(p.n50) THEN arm_n50_fixed(acc, n_objects, misses, n_remaining, s)
       ELSE arm_none_fixed(acc, n_objects, misses, n_remaining, priority, s)

\* without_accuracy that fills in the BestCase order for either priority
without_accuracy_best_order(p, n_objects, misses, s) ==
    LET remaining == saturating_sub(n_objects, s.n300 + s.n100 + s.n50 + misses)
    IN IF ~IsSome(p.n300) THEN [s EXCEPT !.n300 = remaining]
       ELSE IF ~IsSome(p.n100) THEN [s EXCEPT !.n100 = remaining]
       ELSE IF ~IsSome(p.n50) THEN [s EXCEPT !.n50 = remaining]
       ELSE IF p.hitresult_priority = BestCase THEN [s EXCEPT !.n300 = @ + remaining]
       ELSE [s EXCEPT !.n50 = @ + remaining]

\* without_accuracy whose last arm assigns the slack instead of adding it
without_accuracy_assign(p, n_objects, misses, s) ==
    LET remaining == saturating_sub(n_objects, s.n300 + s.n100 + s.n50 + misses)
    IN IF p.hitresult_priority = BestCase
       THEN IF ~IsSome(p.n300) THEN [s EXCEPT !.n300 = remaining]
            ELSE IF ~IsSome(p.n100) THEN [s EXCEPT !.n100 = remaining]
            ELSE IF ~IsSome(p.n50) THEN [s EXCEPT !.n50 = remaining]
            ELSE [s EXCEPT !.n300 = remaining]
       ELSE IF ~IsSome(p.n50) THEN [s EXCEPT !.n50 = remaining]
            ELSE IF ~IsSome(p.n100) THEN [s EXCEPT !.n100 = remaining]
            ELSE IF ~IsSome(p.n300) THEN [s EXCEPT !.n300 = remaining]
            ELSE [s EXCEPT !.n50 = remaining]

\* the else branch: no accuracy, the slack goes to one count
without_accuracy(p, n_objects, misses, s) ==
    LET remaining == saturating_sub(n_objects, s.n300 + s.n100 + s.n50 + misses)
    IN IF p.hitresult_priority = BestCase
       THEN IF ~IsSome(p.n300) THEN [s EXCEPT !.n300 = remaining]
            ELSE IF ~IsSome(p.n100) THEN [s EXCEPT !.n100 = remaining]
            ELSE IF ~IsSome(p.n50) THEN [s EXCEPT !.n50 = remaining]
            ELSE [s EXCEPT !.n300 = @ + remaining]
       ELSE IF ~IsSome(p.n50) THEN [s EXCEPT !.n50 = remaining]
            ELSE IF ~IsSome(p.n100) THEN [s EXCEPT !.n100 = remaining]
            ELSE IF ~IsSome(p.n300) THEN [s EXCEPT !.n300 = remaining]
            ELSE [s EXCEPT !.n50 = @ + remaining]

\* let attrs = match self.map_or_attrs { Map(map) => calculate(map), Attrs(attrs) => attrs }
resolve_attrs(p) ==
    IF IsSome(p.map)
    THEN difficulty([mods |-> p.mods, passed_objects |-> p.passed_objects,
                     clock_rate |-> p.clock_rate], Unwrap(p.map))
    ELSE p.attrs

\* n_objects = cmp::min(get_passed_objects() as u32, attrs.n_objects())
state_n_objects(p, attrs) ==
    Min(as_u32(get_passed_objects(p.passed_objects)), n_objects_of(attrs))

\* misses = self.misses.map_or(0, |n| cmp::min(n, n_objects))
state_misses(p, attrs) == map_or_min(p.misses, state_n_objects(p, attrs))

\* state_max_combo that forgets the misses
state_max_combo_no_misses(p, attrs, misses) ==
    IF IsSome(p.combo) THEN Min(Unwrap(p.combo), attrs.max_combo)
    ELSE attrs.max_combo

\* the final combo: min(combo, max_combo.saturating_sub(misses))
state_max_combo(p, attrs, misses) ==
    LET max_possible_combo == saturating_sub(attrs.max_combo, misses)
    IN IF IsSome(p.combo) THEN Min(Unwrap(p.combo), max_possible_combo)
       ELSE max_possible_combo

\* the body of generate_state once `attrs` is resolved
generate_state_with(p, attrs, n_objects, misses) ==
    LET n_remaining == n_objects - misses
        s0 == [n300 |-> map_or_min(p.n300, n_remaining),
               n100 |-> map_or_min(p.n100, n_remaining),
               n50 |-> map_or_min(p.n50, n_remaining)]
        s == IF IsSome(p.acc) THEN with_accuracy(p, n_objects, misses, n_remaining, s0)
             ELSE without_accuracy(p, n_objects, misses, s0)
    IN [max_combo |-> state_max_combo(p, attrs, misses),
        n300 |-> s.n300, n100 |-> s.n100, n50 |-> s.n50, misses |-> misses]

\* generate_state with the attributes `attrs` of the map or of the caller
generate_state_of(p, attrs) ==
    generate_state_with(p, attrs, state_n_objects(p, attrs), state_misses(p, attrs))

\* pub fn generate_state(&mut self) -> OsuScoreState
generate_state(p) == generate_state_of(p, resolve_attrs(p))

-----------------------------------------------------------------------------
(* test::brute_force_best, the exhaustive reference of the proptest          *)
(* `hitresults`; N_OBJECTS is the parameter n_objects here                   *)

\* for new100 in min_n100..=max_n100 { .. } of brute_force_best
RECURSIVE brute_loop_n100(_, _, _, _, _, _, _, _)
brute_loop_n100(new100, max_n100, acc, new300, n50, misses, n_remaining, best) ==
    IF new100 > max_n100 THEN best
    ELSE LET new50 == IF IsSome(n50) THEN Min(n_remaining, Unwrap(n50))
                      ELSE saturating_sub(n_remaining, new300 + new100)
             curr_dist == Dist(acc, accuracy(new300, new100, new50, misses))
         IN brute_loop_n100(new100 + 1, max_n100, acc, new300, n50, misses, n_remaining,
                            Better(best, curr_dist, new300, new100, new50))

\* for new300 in min_n300..=max_n300 { .. } of brute_force_best
RECURSIVE brute_loop_n300(_, _, _, _, _, _, _, _)
brute_loop_n300(new300, max_n300, acc, n100, n50, misses, n_remaining, best) ==
    IF new300 > max_n300 THEN best
    ELSE LET min_n100 == IF IsSome(n100) THEN Min(n_remaining, Unwrap(n100))
                         ELSE IF IsSome(n50)
                         THEN saturating_sub(n_remaining, new300 + Unwrap(n50))
                         ELSE 0
             max_n100 == IF IsSome(n100) THEN Min(n_remaining, Unwrap(n100))
                         ELSE IF IsSome(n50)
                         THEN saturating_sub(n_remaining, new300 + Unwrap(n50))
                         ELSE n_remaining - new300
         IN brute_loop_n300(new300 + 1, max_n300, acc, n100, n50, misses, n_remaining,
                            brute_loop_n100(min_n100, max_n100, acc, new300, n50, misses,
                                            n_remaining, best))

\* Option::unwrap_or(0)
unwrap_or_0(o) == IF IsSome(o) THEN Unwrap(o) ELSE 0

\* fn brute_force_best(acc, n300, n100, n50, misses, best_case) -> OsuScoreState
brute_force_best(acc, n300, n100, n50, misses_arg, best_case, n_objects) ==
    LET misses == Min(misses_arg, n_objects)
        n_remaining == n_objects - misses
        min_n300 == IF IsSome(n300) THEN Min(n_remaining, Unwrap(n300))
                    ELSE IF IsSome(n100) /\ IsSome(n50)
                    THEN saturating_sub(n_remaining, Unwrap(n100) + Unwrap(n50))
                    ELSE 0
        max_n300 == IF IsSome(n300) THEN Min(n_remaining, Unwrap(n300))
                    ELSE saturating_sub(n_remaining, unwrap_or_0(n100) + unwrap_or_0(n50))
        best == brute_loop_n300(min_n300, max_n300, acc, n100, n50, misses, n_remaining,
                                [dist |-> None, n300 |-> 0, n100 |-> 0, n50 |-> 0])
        found == [n300 |-> best.n300, n100 |-> best.n100, n50 |-> best.n50]
        remaining == saturating_sub(n_remaining, found.n300 + found.n100 + found.n50)
        filled == IF best_case THEN [found EXCEPT !.n300 = @ + remaining]
                  ELSE [found EXCEPT !.n50 = @ + remaining]
        shifted == IF ~IsSome(n300) /\ ~IsSome(n100) /\ ~IsSome(n50)
                   THEN IF best_case
                        THEN LET n == Min(filled.n300, filled.n50 \div 4)
                             IN [n300 |-> filled.n300 - n, n100 |-> filled.n100 + 5 * n,
                                 n50 |-> filled.n50 - 4 * n]
                        ELSE LET n == filled.n100 \div 5
                             IN [n300 |-> filled.n300 + n, n100 |-> filled.n100 - 5 * n,
                                 n50 |-> filled.n50 + 4 * n]
                   ELSE filled
    IN [max_combo |-> 0, n300 |-> shifted.n300, n100 |-> shifted.n100,
        n50 |-> shifted.n50, misses |-> misses]

\* the state the proptest `hitresults` expects of generate_state
expected_state(p) ==
    [brute_force_best(Unwrap(p.acc), p.n300, p.n100, p.n50, unwrap_or_0(p.misses),
                      p.hitresult_priority = BestCase, state_n_objects(p, p.attrs))
     EXCEPT !.max_combo = saturating_sub(p.attrs.max_combo,
                                         map_or_min(p.misses, state_n_objects(p, p.attrs)))]

-----------------------------------------------------------------------------
(* The OsuPerformance builder *)

\* OsuPerformance::from_map_or_attrs: every setting starts unset
from_map_or_attrs(attrs) ==
    [map |-> None, attrs |-> attrs, mods |-> 0, clock_rate |-> None,
     passed_objects |-> None, acc |-> None, combo |-> None,
     n300 |-> None, n100 |-> None, n50 |-> None, misses |-> None,
     hitresult_priority |-> BestCase]

\* OsuDifficultyAttributes::default()
default_attrs ==
    [stars |-> 0, aim |-> Zero, jump |-> Zero, flow |-> Zero, precision |-> Zero,
     speed |-> Zero, stamina |-> Zero, accuracy |-> Zero,
     n_circles |-> 0, n_sliders |-> 0, n_spinners |-> 0, max_combo |-> 0]

\* OsuPerformance::new(map): the attributes are computed when they are needed
from_map(map) == [from_map_or_attrs(default_attrs) EXCEPT !.map = Some(map)]

\* OsuPerformance::mods
OsuPerformance_mods(p, mods) == [p EXCEPT !.mods = mods]

\* OsuPerformance::clock_rate
OsuPerformance_clock_rate(p, clock_rate) == [p EXCEPT !.clock_rate = Some(clock_rate)]

\* OsuPerformance::combo
OsuPerformance_combo(p, combo) == [p EXCEPT !.combo = Some(combo)]

\* OsuPerformance::hitresult_priority
OsuPerformance_hitresult_priority(p, priority) ==
    [p EXCEPT !.hitresult_priority = priority]

\* OsuPerformance::n300
OsuPerformance_n300(p, n) == [p EXCEPT !.n300 = Some(n)]

\* OsuPerformance::n100
OsuPerformance_n100(p, n) == [p EXCEPT !.n100 = Some(n)]

\* OsuPerformance::n50
OsuPerformance_n50(p, n) == [p EXCEPT !.n50 = Some(n)]

\* OsuPerformance::misses
OsuPerformance_misses(p, n) == [p EXCEPT !.misses = Some(n)]

\* OsuPerformance::passed_objects
OsuPerformance_passed_objects(p, n) == [p EXCEPT !.passed_objects = Some(n)]

\* OsuPerformance::accuracy: acc.clamp(0.0, 100.0) / 100.0, in units of 1 / AccDen
OsuPerformance_accuracy(p, acc) ==
    [p EXCEPT !.acc = Some(Max(0, Min(acc, AccDen)))]

\* OsuPerformance::state
OsuPerformance_state(p, state) ==
    [p EXCEPT !.combo = Some(state.max_combo), !.n300 = Some(state.n300),
              !.n100 = Some(state.n100), !.n50 = Some(state.n50),
              !.misses = Some(state.misses)]

\* a builder chain: `if let Some(x) = o { calc = calc.setter(x) }` for every
\* setter, as in the proptest
build(attrs, passed, acc, combo, n300, n100, n50, misses, priority) ==
    LET p0 == from_map_or_attrs(attrs)
        p1 == IF IsSome(passed) THEN OsuPerformance_passed_objects(p0, Unwrap(passed)) ELSE p0
        p2 == IF IsSome(acc) THEN OsuPerformance_accuracy(p1, Unwrap(acc)) ELSE p1
        p3 == IF IsSome(combo) THEN OsuPerformance_combo(p2, Unwrap(combo)) ELSE p2
        p4 == IF IsSome(n300) THEN OsuPerformance_n300(p3, Unwrap(n300)) ELSE p3
        p5 == IF IsSome(n100) THEN OsuPerformance_n100(p4, Unwrap(n100)) ELSE p4
        p6 == IF IsSome(n50) THEN OsuPerformance_n50(p5, Unwrap(n50)) ELSE p5
        p7 == IF IsSome(misses) THEN OsuPerformance_misses(p6, Unwrap(misses)) ELSE p6
    IN OsuPerformance_hitresult_priority(p7, priority)

Option(S) == {None} \cup {Some(x) : x \in S}

Priorities == {BestCase, WorstCase}

\* difficulty attributes of a map of n hit objects of which `sliders` are
\* sliders and add one combo each: n_objects() = n, max_combo = n + sliders
attrs_of(n, sliders) ==
    [default_attrs EXCEPT !.n_circles = n - sliders, !.n_sliders = sliders,
                          !.max_combo = n + sliders]

\* the gradual calculator is not part of the performance builder's runs
GradualIdle ==
    /\ gradual = GradualDifficulty_new([mods |-> 0, passed_objects |-> None,
                                        clock_rate |-> None], <<>>)
    /\ out = None
    /\ calls = 0
    /\ uniform = [n |-> 0, ok |-> TRUE]
    /\ lastArg = None

\* the proptest `hitresults`: any subset of the counts, each up to n_objects + 1
InitHitresults ==
    \E acc \in Option(-1 .. AccDen + 1), priority \in Priorities,
       n300 \in Option(0 .. MaxObjects + 1), n100 \in Option(0 .. MaxObjects + 1),
       n50 \in Option(0 .. MaxObjects + 1), misses \in Option(0 .. MaxObjects + 1) :
        perf = build(attrs_of(MaxObjects, 1), None, acc, None, n300, n100, n50, misses,
                     priority)

\* a larger map with no count fixed, for the double search and the priority shift
InitSearch ==
    \E acc \in Option(0 .. AccDen), priority \in Priorities,
       passed \in Option(0 .. BigObjects + 1), misses \in Option(0 .. BigObjects + 1) :
        perf = build(attrs_of(BigObjects, 2), passed, acc, None, None, None, None, misses,
                     priority)

\* plays with a combo, with and without sliders
InitCombo ==
    \E sliders \in 0 .. 1, combo \in Option(0 .. MaxObjects + 2),
       passed \in Option(0 .. MaxObjects + 1), misses \in Option(0 .. MaxObjects + 1),
       n100 \in Option({1}), priority \in Priorities :
        perf = build(attrs_of(MaxObjects, sliders), passed, None, combo, None, n100, None,
                     misses, priority)

\* OsuPerformance::from(attrs).passed_objects(..).state(s): a full score state
\* handed over, no accuracy
InitState ==
    \E sliders \in 0 .. 1, passed \in Option(0 .. MaxObjects + 1),
       max_combo \in 0 .. MaxObjects + 2, n300 \in 0 .. MaxObjects, n100 \in 0 .. 2,
       n50 \in 0 .. 1, misses \in 0 .. 2, priority \in Priorities :
        perf = OsuPerformance_state(
                   build(attrs_of(MaxObjects, sliders), passed, None, None, None, None,
                         None, None, priority),
                   [max_combo |-> max_combo, n300 |-> n300, n100 |-> n100, n50 |-> n50,
                    misses |-> misses])

\* no beatmap is being converted in the runs of the other calculators
ConvIdle ==
    /\ conv = None
    /\ convOut = None

\* no difficulty calculation is made in the runs of the other calculators
DiffIdle ==
    /\ diff = None
    /\ diffOut = None

\* no skill is fed by hand in the runs of the calculators
SkillIdle ==
    /\ skillRun = None
    /\ doubles = None

InitPerf ==
    /\ InitHitresults \/ InitSearch \/ InitCombo \/ InitState
    /\ ret = None
    /\ GradualIdle
    /\ ConvIdle
    /\ DiffIdle /\ SkillIdle

\* let state = calc.generate_state();
GenerateState ==
    /\ ret' = Some(generate_state(perf))
    /\ perf' = [perf EXCEPT !.map = None, !.attrs = resolve_attrs(perf)]
    /\ UNCHANGED <<gradVars, convVars, diffVars, skillVars>>

NextPerf == GenerateState

SpecPerf == InitPerf /\ [][NextPerf]_vars

-----------------------------------------------------------------------------
(* Claims about generate_state, checked under SpecPerf *)

Generated == ret # None

State == Unwrap(ret)

total_hits(s) == s.n300 + s.n100 + s.n50 + s.misses

\* C5: with an accuracy, and any subset of n300 / n100 / n50 / misses supplied
\* (values may exceed the object count), generate_state returns exactly the
\* state of the exhaustive search brute_force_best: the first minimum of
\* |acc - accuracy| in ascending n300 then n100 order, then the slack fill and
\* the priority shift, with max_combo = attrs.max_combo saturating-minus the
\* clamped misses.
C5_MatchesBruteForce ==
    (Generated /\ IsSome(perf.acc) /\ ~IsSome(perf.combo))
        => State = expected_state(perf)

\* C5 witness: a search with no count fixed and with misses, whose BestCase
\* priority shift left five or more 100s beside the 300s
C5_Witness ==
    /\ Generated /\ IsSome(perf.acc) /\ ~IsSome(perf.combo)
    /\ n_fixed(perf) = 0
    /\ perf.hitresult_priority = BestCase
    /\ IsSome(perf.misses) /\ Unwrap(perf.misses) > 0
    /\ State.n100 >= 5
    /\ State.n300 > 0

\* C6 as stated: n300 + n100 + n50 + misses <= n_objects for every input, with
\* equality when a count is unspecified or an accuracy was given.
C6_HitresultAccounting ==
    Generated =>
        /\ total_hits(State) <= state_n_objects(perf, perf.attrs)
        /\ (n_fixed(perf) < 3 \/ IsSome(perf.acc))
               => total_hits(State) = state_n_objects(perf, perf.attrs)

\* C7: max_combo = min(caller_combo, attrs.max_combo - misses) with the
\* generated (clamped) misses, or attrs.max_combo - misses without a caller
\* combo; the difference is never negative.
C7_ComboUpperBound ==
    Generated =>
        LET misses == State.misses
            bound == perf.attrs.max_combo - misses
        IN /\ misses = (IF IsSome(perf.misses)
                        THEN Min(Unwrap(perf.misses), state_n_objects(perf, perf.attrs)) ELSE 0)
           /\ bound >= 0
           /\ State.max_combo <= bound
           /\ State.max_combo = (IF IsSome(perf.combo) THEN Min(Unwrap(perf.combo), bound)
                                 ELSE bound)

\* C7 witness: a caller combo above what the misses leave
C7_Witness ==
    /\ Generated /\ IsSome(perf.combo)
    /\ State.misses > 0
    /\ Unwrap(perf.combo) > perf.attrs.max_combo - State.misses
    /\ State.max_combo = perf.attrs.max_combo - State.misses

\* a.num / a.den >= b.num / b.den
RatGeq(a, b) == a.num * b.den >= b.num * a.den

state_accuracy(s) == accuracy(s.n300, s.n100, s.n50, s.misses)

\* C8: with an accuracy and none of n300 / n100 / n50 supplied, the accuracy of
\* the BestCase state is at least the accuracy of the WorstCase state.
C8_PriorityOrder ==
    (Generated /\ IsSome(perf.acc) /\ n_fixed(perf) = 0)
        => LET best == generate_state(OsuPerformance_hitresult_priority(perf, BestCase))
               worst == generate_state(OsuPerformance_hitresult_priority(perf, WorstCase))
           IN /\ State \in {best, worst}
              /\ RatGeq(state_accuracy(best), state_accuracy(worst))

\* C8 witness: the two priorities generate different states
C8_Witness ==
    /\ Generated /\ IsSome(perf.acc) /\ n_fixed(perf) = 0
    /\ perf.hitresult_priority = BestCase
    /\ State # generate_state(OsuPerformance_hitresult_priority(perf, WorstCase))

\* the count `f` as clamped from the caller's value
clamped(f) ==
    LET n_remaining == state_n_objects(perf, perf.attrs) - State.misses
    IN map_or_min(perf[f], n_remaining)

\* the counts in priority order
priority_order ==
    IF perf.hitresult_priority = BestCase THEN <<"n300", "n100", "n50">>
    ELSE <<"n50", "n100", "n300">>

\* the slack the fixed counts and the misses leave (saturating, as the counts
\* are unsigned)
slack ==
    saturating_sub(state_n_objects(perf, perf.attrs),
                   clamped("n300") + clamped("n100") + clamped("n50") + State.misses)

C10_ThirdCount ==
    (Generated /\ IsSome(perf.acc) /\ n_fixed(perf) = 2) =>
        LET R == state_n_objects(perf, perf.attrs) - State.misses
            third == CHOOSE f \in {"n300", "n100", "n50"} : ~IsSome(perf[f])
            fixed == {"n300", "n100", "n50"} \ {third}
            a == CHOOSE f \in fixed : TRUE
            b == CHOOSE f \in fixed : f # a
        IN State[third] = R - (State[a] + State[b])

-----------------------------------------------------------------------------
(* Performance calculation and the gradual performance calculators *)

\* calculate_effective_misses without the clamp to the possible breaks
calculate_effective_misses_no_clamp(attrs, state) ==
    LET full_combo_threshold ==
            RatSub(FromInt(attrs.max_combo), Rat(attrs.n_sliders, 10))
        combo_based_miss_count ==
            IF attrs.n_sliders > 0 /\ RatLess(FromInt(state.max_combo), full_combo_threshold)
            THEN RatDiv(full_combo_threshold, RatMax(FromInt(state.max_combo), FromInt(1)))
            ELSE FromInt(0)
    IN RatMax(combo_based_miss_count, FromInt(state.misses))

\* fn calculate_effective_misses(attrs, state) -> f64
calculate_effective_misses(attrs, state) ==
    LET full_combo_threshold ==
            RatSub(FromInt(attrs.max_combo), Rat(attrs.n_sliders, 10))
        combo_based_miss_count ==
            IF attrs.n_sliders > 0 /\ RatLess(FromInt(state.max_combo), full_combo_threshold)
            THEN RatDiv(full_combo_threshold, RatMax(FromInt(state.max_combo), FromInt(1)))
            ELSE FromInt(0)
        clamped_count ==
            RatMin(combo_based_miss_count, FromInt(state.n100 + state.n50 + state.misses))
    IN RatMax(clamped_count, FromInt(state.misses))

\* OsuPerformanceInner::total_hits
OsuPerformanceInner_total_hits(inner) == total_hits(inner.state)

\* OsuPerformanceInner::compute_normalised_hit_error: NaN when
\* circle_300_count <= 0, else hit_window / z_value, a finite number
compute_normalised_hit_error(inner, hits) ==
    LET circle_300_count == inner.state.n300 - (hits - inner.attrs.n_circles)
    IN IF circle_300_count <= 0 THEN NaN ELSE Pos

\* OsuPerformanceInner::compute_miss_weight: base.powf(exponent), kept as the
\* pair of the base and the exponent
compute_miss_weight(inner) ==
    [base |-> Rat(97, 100), exponent |-> FromInt(inner.state.misses)]

\* the combo weight max_combo_state.powf(e) / max_combo_attrs.powf(e)
combo_weight(inner) ==
    FDiv(FPow(FromCount(inner.state.max_combo)), FPow(FromCount(inner.attrs.max_combo)))

\* if normalised_hit_error.is_nan() { 0.0 } else { b.powf(normalised_hit_error) * c }
accuracy_weight(normalised_hit_error) == IF normalised_hit_error = NaN THEN Zero ELSE Pos

\* OsuPerformanceInner::compute_aim_weight; the miss weight and the flashlight
\* weight are finite and > 0
compute_aim_weight(inner, miss_weight, normalised_hit_error, hits) ==
    LET fl_length_weight == Pos
    IN FMul(FMul(FMul(accuracy_weight(normalised_hit_error), combo_weight(inner)), Pos),
            fl_length_weight)

\* OsuPerformanceInner::compute_speed_weight
compute_speed_weight(inner, miss_weight, normalised_hit_error) ==
    FMul(FMul(accuracy_weight(normalised_hit_error), combo_weight(inner)), Pos)

\* OsuPerformanceInner::compute_accuracy_weight: tanh(..) * 1.2 * mod_weight
compute_accuracy_weight(inner) == Pos

\* OsuPerformanceInner::compute_skill_value: skill_diff.powf(3.0) * 3.9
compute_skill_value(skill_diff) == FMul(FPow(skill_diff), Pos)

\* OsuPerformanceInner::compute_accuracy_value
compute_accuracy_value(normalised_hit_error) ==
    IF normalised_hit_error = NaN THEN Zero ELSE Pos

\* OsuPerformanceInner::calculate
OsuPerformanceInner_calculate(inner) ==
    LET hits == OsuPerformanceInner_total_hits(inner)
        normalised_hit_error == compute_normalised_hit_error(inner, hits)
        miss_weight == compute_miss_weight(inner)
        aim_weight == compute_aim_weight(inner, miss_weight, normalised_hit_error, hits)
        speed_weight == compute_speed_weight(inner, miss_weight, normalised_hit_error)
        acc_weight == compute_accuracy_weight(inner)
        aim_value == FMul(compute_skill_value(inner.attrs.aim), aim_weight)
        jump_aim_value == FMul(compute_skill_value(inner.attrs.jump), aim_weight)
        flow_aim_value == FMul(compute_skill_value(inner.attrs.flow), aim_weight)
        precision_aim_value == FMul(compute_skill_value(inner.attrs.precision), aim_weight)
        speed_value == FMul(compute_skill_value(inner.attrs.speed), speed_weight)
        stamina_value == FMul(compute_skill_value(inner.attrs.stamina), speed_weight)
        acc_value == FMul(FMul(compute_accuracy_value(normalised_hit_error),
                               inner.attrs.accuracy),
                          acc_weight)
        pp == FMul(FPow(FAdd(FAdd(FPow(aim_value), FPow(FMax(speed_value, stamina_value))),
                             FPow(acc_value))),
                   Pos)
    IN [difficulty |-> inner.attrs, pp |-> pp, pp_aim |-> aim_value,
        pp_jump_aim |-> jump_aim_value, pp_flow_aim |-> flow_aim_value,
        pp_precision |-> precision_aim_value, pp_speed |-> speed_value,
        pp_stamina |-> stamina_value, pp_accuracy |-> acc_value,
        normalised_hit_error |-> normalised_hit_error, miss_weight |-> miss_weight]

\* OsuPerformance::calculate after generate_state returned `state` and left
\* the attributes in the calculator `p`.  The result holds the performance
\* attributes, as classes, and what the real values behind the classes are
\* computed from: the mods, the generated state, the effective miss count, and
\* the normalised hit error and the miss weight of
\* OsuPerformanceInner::calculate.
calculate_inner(p, state) ==
    LET effective_miss_count == calculate_effective_misses(p.attrs, state)
        inner == [attrs |-> p.attrs, mods |-> p.mods, acc |-> state_accuracy(state),
                  state |-> state, effective_miss_count |-> effective_miss_count]
    IN OsuPerformanceInner_calculate(inner)
           @@ [mods |-> p.mods, state |-> state,
               effective_miss_count |-> effective_miss_count]

\* OsuPerformance::calculate with the attributes in place of a map
calculate_resolved(p) ==
    CHOOSE r \in {calculate_inner(p, state) : state \in {generate_state(p)}} : TRUE

\* OsuPerformance::calculate: generate_state puts the attributes in place of a
\* map, and the rest is computed from them
OsuPerformance_calculate(p) ==
    CHOOSE r \in {calculate_resolved([p EXCEPT !.map = None, !.attrs = attrs]) :
                      attrs \in {resolve_attrs(p)}} : TRUE

\* Performance::new(map).mods(mods).passed_objects(n).state(state).calculate()
regular_calc(map, mods, passed_objects, state) ==
    OsuPerformance_calculate(
        OsuPerformance_state(
            OsuPerformance_passed_objects(OsuPerformance_mods(from_map(map), mods),
                                          passed_objects),
            state))

\* the performance of the attributes `attrs` as GradualPerformance::nth
\* computes it, with `passed` for passed_objects
gradual_calc(g, attrs, state, passed) ==
    OsuPerformance_calculate(
        OsuPerformance_passed_objects(
            OsuPerformance_clock_rate(
                OsuPerformance_mods(OsuPerformance_state(from_map_or_attrs(attrs), state),
                                    g.mods),
                g.clock_rate),
            passed))

\* GradualPerformance::nth with passed_objects set to the step n + 1
GradualPerformance_nth_step(g, state, n) ==
    LET r == GradualDifficulty_nth(g, n)
    IN IF r.attrs = None THEN [gradual |-> r.gradual, performance |-> None]
       ELSE [gradual |-> r.gradual,
             performance |-> Some(gradual_calc(r.gradual, Unwrap(r.attrs), state, as_u32(n + 1)))]

\* GradualPerformance::nth with passed_objects read before the cursor advanced
GradualPerformance_nth_stale(g, state, n) ==
    LET r == GradualDifficulty_nth(g, n)
    IN IF r.attrs = None THEN [gradual |-> r.gradual, performance |-> None]
       ELSE [gradual |-> r.gradual,
             performance |-> Some(gradual_calc(r.gradual, Unwrap(r.attrs), state, as_u32(g.idx)))]

\* GradualPerformance::nth that calculates on default attributes at the end
\* instead of returning None
GradualPerformance_nth_no_end(g, state, n) ==
    LET r == GradualDifficulty_nth(g, n)
    IN [gradual |-> r.gradual,
        performance |->
            Some(gradual_calc(r.gradual,
                              IF r.attrs = None THEN default_attrs ELSE Unwrap(r.attrs),
                              state, as_u32(r.gradual.idx)))]

\* GradualPerformance::nth: the difficulty cursor advances, and the attributes
\* it returns are given to a performance calculation, with passed_objects set
\* to the new cursor
GradualPerformance_nth(g, state, n) ==
    LET r == GradualDifficulty_nth(g, n)
    IN IF r.attrs = None THEN [gradual |-> r.gradual, performance |-> None]
       ELSE [gradual |-> r.gradual,
             performance |-> Some(gradual_calc(r.gradual, Unwrap(r.attrs), state,
                                               as_u32(r.gradual.idx)))]

\* GradualPerformance::next
GradualPerformance_next(g, state) == GradualPerformance_nth(g, state, 0)

\* GradualPerformance::last that processes one object only
GradualPerformance_last_one(g, state) == GradualPerformance_nth(g, state, 0)

\* GradualPerformance::last
GradualPerformance_last(g, state) == GradualPerformance_nth(g, state, USIZE_MAX)

-----------------------------------------------------------------------------
(* The performance calculator's runs: a calculator is built from a map or    *)
(* from attributes, given a score state and maybe an accuracy, and then      *)
(* asked for its state, converted to a mode, or calculated                   *)

\* longest map of the calculator's runs
MaxCalcLen == 3

\* largest hitresult count of a score state given to the calculator
MaxCount == 2

Osu == "Osu"

Taiko == "Taiko"

Catch == "Catch"

Mania == "Mania"

GameModes == {Osu, Taiko, Catch, Mania}

\* the maps of n circles and sliders, 300 ms apart, a slider lasting 100 ms
RECURSIVE CalcMapsOfLen(_)
CalcMapsOfLen(n) ==
    IF n = 0 THEN {<<>>}
    ELSE {Append(m, h) :
              m \in CalcMapsOfLen(n - 1),
              h \in {circle(300 * (n - 1)),
                     [start_time |-> 300 * (n - 1), kind |-> Slider,
                      end_time |-> 300 * (n - 1) + 100]}}

CalcMaps == UNION {CalcMapsOfLen(n) : n \in 0 .. MaxCalcLen}

\* the score states given to the calculator
CalcStates ==
    {[max_combo |-> c, n300 |-> n300, n100 |-> n100, n50 |-> n50, misses |-> misses] :
        c \in 0 .. MaxCalcLen + 1, n300 \in 0 .. MaxCount, n100 \in 0 .. 1, n50 \in 0 .. 1,
        misses \in 0 .. MaxCount}

\* Difficulty::new(): no mods, no limit, no clock rate
Difficulty_new == [mods |-> 0, passed_objects |-> None, clock_rate |-> None]

\* OsuPerformance::new(map) or OsuPerformance::new(attrs), attrs being the
\* attributes of a map, then .state(state) and maybe .accuracy(acc)
InitCalc ==
    /\ \E map \in CalcMaps, from_attrs \in BOOLEAN, state \in CalcStates,
          acc \in Option({0, AccDen}) :
           LET p0 == IF from_attrs THEN from_map_or_attrs(difficulty(Difficulty_new, map))
                     ELSE from_map(map)
               p1 == OsuPerformance_state(p0, state)
           IN perf = IF IsSome(acc) THEN OsuPerformance_accuracy(p1, Unwrap(acc)) ELSE p1
    /\ ret = None
    /\ GradualIdle
    /\ ConvIdle
    /\ DiffIdle /\ SkillIdle

\* the value `ret` is the result of calculate()
Calculated == ret # None /\ "pp" \in DOMAIN Unwrap(ret)

\* the value `ret` is the result of try_mode(mode)
TriedMode == ret # None /\ "ok" \in DOMAIN Unwrap(ret)

\* calculate(self) and a successful try_mode(self, mode) consume the calculator
Consumed == Calculated \/ (TriedMode /\ Unwrap(ret).ok)

\* calc.generate_state()
Generate ==
    /\ ~Consumed
    /\ GenerateState

\* calc.calculate(): generate_state is its first step
Calculate ==
    /\ ~Consumed
    /\ ret' = Some(OsuPerformance_calculate(perf))
    /\ perf' = [perf EXCEPT !.map = None, !.attrs = resolve_attrs(perf)]
    /\ UNCHANGED <<gradVars, convVars, diffVars, skillVars>>

\* TaikoPerformance / CatchPerformance / ManiaPerformance::try_from(osu): the
\* calculator itself comes back as Err when it holds no map; an osu! map
\* converts to every mode
Performance_try_from(p, mode) ==
    IF ~IsSome(p.map) THEN [ok |-> FALSE, mode |-> Osu, calc |-> p]
    ELSE [ok |-> TRUE, mode |-> mode, calc |-> p]

\* try_mode that falls back to the osu! calculator (mode_or_ignore)
try_mode_or_ignore(p, mode) == [ok |-> TRUE, mode |-> Osu, calc |-> p]

\* OsuPerformance::try_mode
try_mode(p, mode) ==
    IF mode = Osu THEN [ok |-> TRUE, mode |-> Osu, calc |-> p]
    ELSE Performance_try_from(p, mode)

\* calc.try_mode(mode); `asked` keeps the mode that was asked for
TryMode ==
    /\ ~Consumed
    /\ \E mode \in GameModes :
           ret' = Some(try_mode(perf, mode) @@ [asked |-> mode])
    /\ UNCHANGED <<perf, gradVars, convVars, diffVars, skillVars>>

\* a calculator that is calculated
NextCalc == Calculate

SpecCalc == InitCalc /\ [][NextCalc]_vars

\* a calculator that is asked for its state and converted to modes
NextMode == Generate \/ TryMode

SpecMode == InitCalc /\ [][NextMode]_vars

-----------------------------------------------------------------------------
(* Claims about the performance calculation, checked under SpecCalc *)

\* the calculator was given the all-zero score state and the accuracy 0
EmptyPlay ==
    /\ perf.acc = Some(0) /\ perf.combo = Some(0)
    /\ perf.n300 = Some(0) /\ perf.n100 = Some(0) /\ perf.n50 = Some(0)
    /\ perf.misses = Some(0)

\* C11 as stated (scenario S1, empty play): with the all-zero state and
\* accuracy 0 the generated hitresults are n300 = n100 = n50 = 0 and
\* misses = n_objects, and pp is 0.
C11_EmptyPlay ==
    (Calculated /\ EmptyPlay) =>
        /\ Unwrap(ret).state.n300 = 0
        /\ Unwrap(ret).state.n100 = 0
        /\ Unwrap(ret).state.n50 = 0
        /\ Unwrap(ret).state.misses = state_n_objects(perf, perf.attrs)
        /\ Unwrap(ret).pp = Zero

\* longest map of the gradual runs
MaxLen == 5

\* largest n of an nth(state, n) call, besides usize::MAX
MaxN == 2

\* largest number of calls on one gradual calculator
MaxCalls == 5

\* largest miss count of a score state given to a gradual call
MaxMisses == 2

\* gaps between the start times of two hit objects, in ms
Gaps == {60, 300}

\* the maps of n hit objects: start times with a gap of Gaps between neighbours
RECURSIVE MapsOfLen(_)
MapsOfLen(n) ==
    IF n = 0 THEN {<<>>}
    ELSE IF n = 1 THEN {<<circle(0)>>}
    ELSE {Append(m, circle(m[Len(m)].start_time + gap)) :
              m \in MapsOfLen(n - 1), gap \in Gaps}

Maps == UNION {MapsOfLen(n) : n \in 0 .. MaxLen}

\* the score states given to the gradual calls
ScoreStates ==
    {[max_combo |-> MaxMisses - m, n300 |-> 0, n100 |-> 0, n50 |-> 0, misses |-> m] :
        m \in 0 .. MaxMisses}

PerfIdle ==
    /\ perf = from_map_or_attrs(default_attrs)
    /\ ret = None

InitGradual ==
    /\ \E map \in Maps, mods \in {0, DT} :
           gradual = GradualDifficulty_new([mods |-> mods, passed_objects |-> None,
                                            clock_rate |-> None], map)
    /\ out = None
    /\ calls = 0
    /\ uniform = [n |-> 0, ok |-> TRUE]
    /\ lastArg = None
    /\ PerfIdle
    /\ ConvIdle
    /\ DiffIdle /\ SkillIdle

\* what a call leaves behind: the cursor, the returned value, and the history
\* of the calls (their number, and whether all of them were nth(_, n) with
\* one n)
Called(r, state, n) ==
    /\ gradual' = r.gradual
    /\ out' = r.performance
    /\ calls' = calls + 1
    /\ uniform' = IF calls = 0 THEN [n |-> n, ok |-> TRUE]
                  ELSE [uniform EXCEPT !.ok = @ /\ uniform.n = n]
    /\ lastArg' = Some([state |-> state, n |-> n])
    /\ UNCHANGED <<perfVars, convVars, diffVars, skillVars>>

\* gradual.next(state)
Next_ ==
    /\ calls < MaxCalls
    /\ \E state \in ScoreStates :
           Called(GradualPerformance_next(gradual, state), state, 0)

\* gradual.nth(state, n)
Nth ==
    /\ calls < MaxCalls
    /\ \E state \in ScoreStates, n \in 1 .. MaxN :
           Called(GradualPerformance_nth(gradual, state, n), state, n)

\* gradual.last(state)
Last ==
    /\ calls < MaxCalls
    /\ \E state \in ScoreStates :
           Called(GradualPerformance_last(gradual, state), state, USIZE_MAX)

NextGradual == Next_ \/ Nth \/ Last

SpecGradual == InitGradual /\ [][NextGradual]_vars

-----------------------------------------------------------------------------
(* Claims about the gradual performance calculators, checked under          *)
(* SpecGradual                                                              *)

\* the number of hit objects of the calculator's map
n_hit_objects == Len(gradual.map)

\* a calculator for the same map and mods on which nothing was called yet
fresh == [gradual EXCEPT !.idx = 0, !.skill = OsuSkills_new]

\* the value returned by the last of `count` consecutive next(state) calls on
\* the calculator g (None for count = 0)
RECURSIVE run_next(_, _, _, _)
run_next(g, count, state, last) ==
    IF count = 0 THEN last
    ELSE LET r == GradualPerformance_next(g, state)
         IN run_next(r.gradual, count - 1, state, r.performance)

\* C1: on a fresh calculator the i-th consecutive next(state) call, for
\* 1 <= i <= number of objects, returns the non-gradual performance of the
\* same map and mods with passed_objects = i and the same state.
C1_GradualEquivalence ==
    (uniform.ok /\ uniform.n = 0 /\ calls >= 1 /\ calls <= n_hit_objects)
        => out = Some(regular_calc(gradual.map, gradual.mods, calls,
                                   Unwrap(lastArg).state))

\* C1 witness: the third next call in a row, on a double-time map whose gaps
\* differ, with a miss in the state
C1_Witness ==
    /\ uniform.ok /\ uniform.n = 0 /\ calls = 3 /\ n_hit_objects >= 4
    /\ gradual.mods = DT
    /\ gradual.map[2].start_time - gradual.map[1].start_time
           # gradual.map[3].start_time - gradual.map[2].start_time
    /\ out # None
    /\ Unwrap(out).state.misses = 2

\* C2 as stated: j calls of nth(state, k) return, whenever the call succeeds,
\* what a fresh calculator returns on its j * (k + 1)-th next call.
C2_NthIsRepeatedNext ==
    (uniform.ok /\ uniform.n <= MaxN /\ calls >= 1 /\ out # None)
        => out = run_next(fresh, calls * (uniform.n + 1), Unwrap(lastArg).state, None)

\* C2 amended: the j-th nth(state, k) call, when it succeeds, returns what a
\* fresh calculator returns on its min(j * (k + 1), number of objects)-th next
\* call: a call that finds fewer than k + 1 objects left stops at the last one.
C2_NthIsRepeatedNextToEnd ==
    (uniform.ok /\ uniform.n <= MaxN /\ calls >= 1 /\ out # None)
        => out = run_next(fresh, Min(calls * (uniform.n + 1), n_hit_objects),
                          Unwrap(lastArg).state, None)

\* C2 witness: the second nth(state, 1) call in a row returned a value, four
\* objects in
C2_Witness ==
    /\ uniform.ok /\ uniform.n = 1 /\ calls = 2 /\ out # None
    /\ gradual.idx = 4

\* C3: once the cursor is behind the final object every call (next, nth or
\* last, with any state) returns None and leaves the cursor there.
C3_EndOfSequence ==
    [][gradual.idx = n_hit_objects
           => (out' = None /\ gradual'.idx = gradual.idx)]_vars

\* C3 witness: two or more calls were made behind the final object of a map
\* that has objects (a call that returns a value consumes an object), and the
\* last one returned None
C3_Witness ==
    /\ n_hit_objects > 0 /\ gradual.idx = n_hit_objects
    /\ calls >= n_hit_objects + 2 /\ out = None

IsLast == lastArg # None /\ Unwrap(lastArg).n = USIZE_MAX

\* C4: last(state) returns a value if and only if an object was unprocessed
\* when it was called; the cursor is then behind the final object, no further,
\* and the value is the performance of the whole map.
C4_LastProcessesRest ==
    [][(calls' = calls + 1 /\ IsLast')
           => /\ (out' # None) <=> (gradual.idx < n_hit_objects)
              /\ gradual'.idx = n_hit_objects
              /\ out' # None =>
                     out' = Some(regular_calc(gradual.map, gradual.mods, n_hit_objects,
                                              Unwrap(lastArg').state))]_vars

\* C4 witness: three of four objects were consumed by one nth(state, 2) call,
\* one was left, and last returned a value
C4_Witness ==
    /\ IsLast /\ out # None
    /\ calls = 2 /\ uniform.n = 2 /\ n_hit_objects = 4 /\ gradual.idx = 4

-----------------------------------------------------------------------------
(* Converted<M>: a beatmap attached to a mode (model/beatmap/converted.rs).  *)
(* A beatmap is a record [mode, objects]; a Cow is [cow, map] with cow       *)
(* "Owned" or "Borrowed"; a Converted is [map, is_convert, mode], mode being *)
(* the type parameter M.                                                     *)

\* most hit objects of a beatmap given to a conversion
MaxConvLen == 2

Owned == "Owned"

Borrowed == "Borrowed"

Noop == "Noop"

Done == "Done"

Incompatible == "Incompatible"

\* the beatmaps of a mode: up to MaxConvLen circles and sliders
Beatmaps ==
    {[mode |-> m, objects |-> objs] :
        m \in GameModes,
        objs \in UNION {[1 .. n -> {Circle, Slider}] : n \in 0 .. MaxConvLen}}

\* the objects of an osu! map converted to the mode `N`
converted_objects(N, objects) == [i \in DOMAIN objects |-> <<N, objects[i]>>]

\* M::try_convert(&mut map) -> ConvertStatus for M = N: a map of the mode is
\* left alone, an osu! map is converted in place, any other map is left alone
IGameMode_try_convert(N, map) ==
    IF map.map.mode = N THEN [status |-> Noop, map |-> map]
    ELSE IF map.map.mode = Osu
    THEN [status |-> Done,
          map |-> [cow |-> Owned,
                   map |-> [mode |-> N,
                            objects |-> converted_objects(N, map.map.objects)]]]
    ELSE [status |-> Incompatible, map |-> map]

\* Converted::new
Converted_new(N, map, is_convert) == [map |-> map, is_convert |-> is_convert, mode |-> N]

\* Converted::<N>::try_from_owned(map) -> Result<Self, Beatmap>
Converted_try_from_owned(N, map) ==
    LET r == IGameMode_try_convert(N, [cow |-> Owned, map |-> map])
    IN IF r.status = Noop THEN [ok |-> TRUE, value |-> Converted_new(N, r.map, FALSE)]
       ELSE IF r.status = Done THEN [ok |-> TRUE, value |-> Converted_new(N, r.map, TRUE)]
       ELSE [ok |-> FALSE, value |-> r.map.map]

\* Converted::<N>::try_from_ref(map) -> Option<Self>
Converted_try_from_ref(N, map) ==
    LET r == IGameMode_try_convert(N, [cow |-> Borrowed, map |-> map])
    IN IF r.status = Noop THEN Some(Converted_new(N, r.map, FALSE))
       ELSE IF r.status = Done THEN Some(Converted_new(N, r.map, TRUE))
       ELSE None

\* try_convert whose error forgets is_convert
Converted_try_convert_reset(self, N) ==
    IF self.map.cow = Borrowed
    THEN LET r == Converted_try_from_ref(N, self.map.map)
         IN IF IsSome(r) THEN [ok |-> TRUE, value |-> Unwrap(r)]
            ELSE [ok |-> FALSE, value |-> self]
    ELSE LET r == Converted_try_from_owned(N, self.map.map)
         IN IF r.ok THEN r
            ELSE [ok |-> FALSE,
                  value |-> Converted_new(self.mode, [cow |-> Owned, map |-> r.value], FALSE)]

\* Converted::<M>::try_convert::<N>(self) -> Result<Converted<N>, Self>
Converted_try_convert(self, N) ==
    IF self.map.cow = Borrowed
    THEN LET r == Converted_try_from_ref(N, self.map.map)
         IN IF IsSome(r) THEN [ok |-> TRUE, value |-> Unwrap(r)]
            ELSE [ok |-> FALSE, value |-> self]
    ELSE LET r == Converted_try_from_owned(N, self.map.map)
         IN IF r.ok THEN r
            ELSE [ok |-> FALSE,
                  value |-> Converted_new(self.mode, [cow |-> Owned, map |-> r.value],
                                          self.is_convert)]

\* impl PartialEq for Converted
Converted_eq(a, b) == a.map.map = b.map.map /\ a.is_convert = b.is_convert

\* the value held is a Converted, not a bare Beatmap
IsConverted(v) == "is_convert" \in DOMAIN v

\* the value held is a beatmap of some mode
InitConvert ==
    /\ conv \in {Some(b) : b \in Beatmaps}
    /\ convOut = None
    /\ perf = from_map_or_attrs(default_attrs) /\ ret = None
    /\ GradualIdle /\ DiffIdle /\ SkillIdle

\* the record of one conversion: the operation, its input, its target mode,
\* whether it succeeded and the value it returned
conv_record(op, input, N, ok, value) ==
    [op |-> op, input |-> input, to |-> N, ok |-> ok, value |-> value]

\* Converted::<N>::try_from_owned(map): the caller holds the result, a
\* Converted or the beatmap handed back
TryFromOwned ==
    /\ conv # None /\ ~IsConverted(Unwrap(conv))
    /\ \E N \in GameModes :
           LET r == Converted_try_from_owned(N, Unwrap(conv))
           IN /\ conv' = Some(r.value)
              /\ convOut' = Some(conv_record("try_from_owned", Unwrap(conv), N, r.ok, r.value))
    /\ UNCHANGED <<perfVars, gradVars, diffVars, skillVars>>

\* Converted::<N>::try_from_ref(&map): the caller holds the Converted when
\* there is one, and the beatmap still when there is none
TryFromRef ==
    /\ conv # None /\ ~IsConverted(Unwrap(conv))
    /\ \E N \in GameModes :
           LET r == Converted_try_from_ref(N, Unwrap(conv))
           IN /\ conv' = IF IsSome(r) THEN r ELSE conv
              /\ convOut' = Some(conv_record("try_from_ref", Unwrap(conv), N, IsSome(r), r))
    /\ UNCHANGED <<perfVars, gradVars, diffVars, skillVars>>

\* converted.try_convert::<N>(): the caller holds the new Converted or the
\* one handed back
TryConvert ==
    /\ conv # None /\ IsConverted(Unwrap(conv))
    /\ \E N \in GameModes :
           LET r == Converted_try_convert(Unwrap(conv), N)
           IN /\ conv' = Some(r.value)
              /\ convOut' = Some(conv_record("try_convert", Unwrap(conv), N, r.ok, r.value))
    /\ UNCHANGED <<perfVars, gradVars, diffVars, skillVars>>

NextConvert == TryFromOwned \/ TryFromRef \/ TryConvert

SpecConvert == InitConvert /\ [][NextConvert]_vars

\* the mode of the beatmap a conversion was given
input_mode(o) == IF IsConverted(o.input) THEN o.input.map.map.mode ELSE o.input.mode

\* the compatible pairs: M -> M, and Osu -> any mode
Compatible(M, N) == M = N \/ (M = Osu /\ N \in {Taiko, Catch, Mania})

\* C12: a conversion succeeds exactly for the pairs M -> M and Osu -> Taiko,
\* Catch, Mania; for every other pair try_from_owned returns the beatmap it
\* was given, try_from_ref returns None, and try_convert returns a Converted
\* equal to its input, with the same map and the same is_convert.
C12_ModeConversion ==
    convOut # None =>
        LET o == Unwrap(convOut)
        IN /\ o.ok <=> Compatible(input_mode(o), o.to)
           /\ (~o.ok /\ o.op = "try_from_owned") => o.value = o.input
           /\ (~o.ok /\ o.op = "try_from_ref") => o.value = None
           /\ (~o.ok /\ o.op = "try_convert") =>
                  /\ Converted_eq(o.value, o.input)
                  /\ o.value.map.map = o.input.map.map
                  /\ o.value.is_convert = o.input.is_convert

\* C12 witness: an owned Converted that is a convert of an osu! map with
\* objects was asked for an incompatible mode and handed back
C12_Witness ==
    /\ convOut # None
    /\ Unwrap(convOut).op = "try_convert" /\ ~Unwrap(convOut).ok
    /\ Unwrap(convOut).input.is_convert
    /\ Unwrap(convOut).input.map.cow = Owned
    /\ Len(Unwrap(convOut).input.map.map.objects) = MaxConvLen

-----------------------------------------------------------------------------
(* Claims about try_mode, checked under SpecMode *)

-----------------------------------------------------------------------------
(* Difficulty calculations: a ModeDifficulty is configured with its setters  *)
(* and a map is calculated with it (any/difficulty/mode.rs,                  *)
(* osu/difficulty/mod.rs, osu/difficulty/object.rs)                          *)

\* most hit objects of a map given to a difficulty calculation
MaxDiffLen == 3

\* gaps between the start times of two hit objects, in ms
DiffGaps == {0, 300}

\* how long a slider or a spinner lasts, in ms
Duration == 20

\* the hit object of a kind that starts at `t`
hit_object(kind, t) ==
    [start_time |-> t, kind |-> kind,
     end_time |-> IF kind = Circle THEN t ELSE t + Duration]

\* the maps that start with the objects of `m` and have up to n more
RECURSIVE Extensions(_, _)
Extensions(m, n) ==
    IF n = 0 THEN {m}
    ELSE {m} \cup
         UNION {Extensions(Append(m, hit_object(kind, t)), n - 1) :
                    kind \in {Circle, Slider, Spinner},
                    t \in IF m = <<>> THEN {0}
                          ELSE {m[Len(m)].start_time + gap : gap \in DiffGaps}}

DiffMaps == Extensions(<<>>, MaxDiffLen)

\* the clock rates a caller sets: 0.005, 0.5, 2 and 200
ClockRates == {Rat(1, 200), Rat(1, 2), Rat(2, 1), Rat(200, 1)}

\* ModeDifficulty::mods
ModeDifficulty_mods(d, mods) == [d EXCEPT !.mods = mods]

\* ModeDifficulty::passed_objects
ModeDifficulty_passed_objects(d, passed_objects) ==
    [d EXCEPT !.passed_objects = Some(passed_objects)]

\* ModeDifficulty::clock_rate
ModeDifficulty_clock_rate(d, clock_rate) == [d EXCEPT !.clock_rate = Some(clock_rate)]

\* ModeDifficulty::new() and a map
InitDifficulty ==
    /\ diff \in {Some([difficulty |-> Difficulty_new, map |-> map]) : map \in DiffMaps}
    /\ diffOut = None
    /\ perf = from_map_or_attrs(default_attrs) /\ ret = None
    /\ GradualIdle /\ ConvIdle /\ SkillIdle

\* difficulty.mods(mods)
SetMods ==
    /\ \E mods \in {0, DT, HT} :
           diff' = Some([Unwrap(diff) EXCEPT
                             !.difficulty = ModeDifficulty_mods(@, mods)])
    /\ diffOut' = None
    /\ UNCHANGED <<perfVars, gradVars, convVars, skillVars>>

\* difficulty.passed_objects(n)
SetPassedObjects ==
    /\ \E n \in 0 .. MaxDiffLen + 1 :
           diff' = Some([Unwrap(diff) EXCEPT
                             !.difficulty = ModeDifficulty_passed_objects(@, n)])
    /\ diffOut' = None
    /\ UNCHANGED <<perfVars, gradVars, convVars, skillVars>>

\* difficulty.clock_rate(clock_rate)
SetClockRate ==
    /\ \E clock_rate \in ClockRates :
           diff' = Some([Unwrap(diff) EXCEPT
                             !.difficulty = ModeDifficulty_clock_rate(@, clock_rate)])
    /\ diffOut' = None
    /\ UNCHANGED <<perfVars, gradVars, convVars, skillVars>>

\* difficulty.calculate(map): the clock rate of the calculation, the hit
\* objects it took, the DifficultyValues and the attributes
DiffCalculate ==
    /\ diffOut = None
    /\ LET d == Unwrap(diff).difficulty
           map == Unwrap(diff).map
       IN diffOut' = Some([clock_rate |-> get_clock_rate(d),
                           osu_objects |->
                               convert_objects(map, get_passed_objects(d.passed_objects)),
                           values |-> DifficultyValues_calculate(d, map),
                           attrs |-> difficulty(d, map)])
    /\ UNCHANGED <<diff, perfVars, gradVars, convVars, skillVars>>

NextDifficulty == SetMods \/ SetPassedObjects \/ SetClockRate \/ DiffCalculate

SpecDifficulty == InitDifficulty /\ [][NextDifficulty]_vars

-----------------------------------------------------------------------------
(* Claims about difficulty calculations, checked under SpecDifficulty *)

\* the calculation that has returned, its calculator and its map
Calc == Unwrap(diffOut)

CalcDifficulty == Unwrap(diff).difficulty

CalcMap == Unwrap(diff).map

\* C14 as stated: the clock rate of a calculation is the caller's override
\* restricted to [0.01, 100] when one was set, and otherwise the rate of the
\* mods: 1.5 for DT, 0.75 for HT, 1.0 else.
C14_ClockRate ==
    diffOut # None =>
        Calc.clock_rate =
            IF IsSome(CalcDifficulty.clock_rate)
            THEN RatMin(RatMax(Unwrap(CalcDifficulty.clock_rate), Rat(1, 100)), FromInt(100))
            ELSE IF (CalcDifficulty.mods \div 64) % 2 = 1 THEN Rat(3, 2)
            ELSE IF (CalcDifficulty.mods \div 256) % 2 = 1 THEN Rat(3, 4)
            ELSE FromInt(1)

\* the number of hit objects a calculation with the limit of `CalcDifficulty`
\* consumes
consumed == Min(get_passed_objects(CalcDifficulty.passed_objects), Len(CalcMap))

\* maps that agree with `CalcMap` on the first passed_objects hit objects: the
\* objects the two have in common alone, and these followed by one more
\* object.  Every map that agrees with `CalcMap` agrees with the first of
\* these, and is itself the `CalcMap` of a calculation.
Agreeing ==
    IF get_passed_objects(CalcDifficulty.passed_objects) <= Len(CalcMap)
    THEN Extensions(SubSeq(CalcMap, 1, consumed), Min(1, MaxDiffLen - consumed))
    ELSE {CalcMap}

\* C15: a calculation with passed_objects = p consumes exactly the first
\* min(p, n_objects) hit objects: it builds max(min(p, n_objects) - 1, 0)
\* difficulty objects and feeds exactly these to the skills, in index order,
\* none at all when p = 0 or the map is empty; every map that agrees on the
\* first p hit objects yields equal attributes.
C15_MonotoneConsumption ==
    diffOut # None =>
        /\ Calc.osu_objects = SubSeq(CalcMap, 1, consumed)
        /\ n_objects_of(Calc.attrs) = consumed
        /\ Len(Calc.values.diff_objects) = Max(consumed - 1, 0)
        /\ Calc.values.skills.processed = [i \in 1 .. Max(consumed - 1, 0) |-> i - 1]
        /\ \A i \in 1 .. Max(consumed - 1, 0) :
               /\ Calc.values.diff_objects[i].idx = i - 1
               /\ Calc.values.diff_objects[i].base = CalcMap[i + 1]
        /\ (consumed = 0) => Calc.values.skills = OsuSkills_new
        /\ \A other \in Agreeing : difficulty(CalcDifficulty, other) = Calc.attrs

\* C15 witness: a limit of two objects on a map of three whose third object is
\* a slider: one difficulty object was fed, and the slider is not counted
C15_Witness ==
    /\ diffOut # None
    /\ CalcDifficulty.passed_objects = Some(2) /\ Len(CalcMap) = 3
    /\ CalcMap[3].kind = Slider
    /\ Calc.values.skills.processed = <<0>>
    /\ Calc.attrs.n_sliders = count_kind(SubSeq(CalcMap, 1, 2), Slider)

\* the floors of the strain times hold for the difficulty object `o`, the
\* i-th of its calculation
floors_hold(o, i) ==
    /\ o.strain_time = IF RatLess(o.delta_time, FromInt(50)) THEN FromInt(50)
                       ELSE o.delta_time
    /\ ~RatLess(o.strain_time, FromInt(50))
    /\ ~RatLess(o.last_two_strain_time, FromInt(100))
    /\ (i = 1) => o.last_two_strain_time = FromInt(100)

\* the difficulty objects of the calculation at twice its clock rate
doubled ==
    create_difficulty_objects(
        ModeDifficulty_clock_rate(CalcDifficulty, RatMul(Calc.clock_rate, FromInt(2))),
        Calc.osu_objects)

\* C16: every difficulty object built from non-decreasing start times at a
\* clock rate > 0 has strain_time = max(delta_time, 50) >= 50 and
\* last_two_strain_time >= 100, exactly 100 for the first difficulty object;
\* at twice the clock rate every delta_time is half and the floors still hold.
C16_StrainTimeFloors ==
    diffOut # None =>
        /\ DOMAIN doubled = DOMAIN Calc.values.diff_objects
        /\ \A i \in DOMAIN Calc.values.diff_objects :
               /\ floors_hold(Calc.values.diff_objects[i], i)
               /\ RatMul(doubled[i].delta_time, FromInt(2))
                      = Calc.values.diff_objects[i].delta_time
               /\ floors_hold(doubled[i], i)

\* C16 witness: at the clock rate 2 the first difficulty object follows its
\* predecessor by less than 50 ms and is floored to 50, and the second is
\* more than 100 ms behind the object two before it
C16_Witness ==
    /\ diffOut # None
    /\ Calc.clock_rate = FromInt(2)
    /\ Len(Calc.values.diff_objects) >= 2
    /\ RatLess(Calc.values.diff_objects[1].delta_time, FromInt(50))
    /\ Calc.values.diff_objects[1].strain_time = FromInt(50)
    /\ RatLess(FromInt(100), Calc.values.diff_objects[2].last_two_strain_time)
    /\ RatLess(FromInt(50), Calc.values.diff_objects[2].delta_time)

\* C20 as stated: the travel time of a difficulty object is its strain_time
\* when its predecessor is a circle, and max((start_i - end_{i-1}) / r, 50)
\* when its predecessor is a slider or a spinner, start_i and end_{i-1} being
\* the times of the map, divided once by the clock rate r.
C20_TravelTime ==
    diffOut # None =>
        \A i \in DOMAIN Calc.values.diff_objects :
            Calc.values.diff_objects[i].travel_time =
                IF Calc.osu_objects[i].kind = Circle
                THEN Calc.values.diff_objects[i].strain_time
                ELSE LET gap == RatDiv(FromInt(Calc.osu_objects[i + 1].start_time
                                                   - Calc.osu_objects[i].end_time),
                                       Calc.clock_rate)
                     IN IF RatLess(gap, FromInt(50)) THEN FromInt(50) ELSE gap

-----------------------------------------------------------------------------
(* Claims about the performance values, checked under SpecCalc *)

\* the performance attributes that calculate() returned
Result == Unwrap(ret)

\* C17 as stated: the miss weight applied to the aim and speed values is 0.97
\* raised to the effective miss count, so a score whose combo-based guess
\* exceeds its misses is weighted by the guess.
C17_MissWeight ==
    Calculated =>
        Result.miss_weight = [base |-> Rat(97, 100), exponent |-> Result.effective_miss_count]

\* c = n300 - (total_hits - n_circles) of the result
circle_300_count ==
    Result.state.n300
        - (Result.state.n300 + Result.state.n100 + Result.state.n50 + Result.state.misses
               - Result.difficulty.n_circles)

\* C18 as stated: whenever c = n300 - (total_hits - n_circles) <= 0 the
\* normalised hit error is NaN, the aim, jump, flow, precision, speed, stamina
\* and accuracy pp values are all zero and pp is 0, never NaN.
C18_NaNDegeneracy ==
    (Calculated /\ circle_300_count <= 0) =>
        /\ Result.normalised_hit_error = NaN
        /\ Result.pp_aim = Zero /\ Result.pp_jump_aim = Zero
        /\ Result.pp_flow_aim = Zero /\ Result.pp_precision = Zero
        /\ Result.pp_speed = Zero /\ Result.pp_stamina = Zero
        /\ Result.pp_accuracy = Zero
        /\ Result.pp = Zero

\* thresh = max_combo - 0.1 * n_sliders of the result's attributes
thresh == RatSub(FromInt(Result.difficulty.max_combo), Rat(Result.difficulty.n_sliders, 10))

\* the combo-based guess of the misses
guess ==
    IF Result.difficulty.n_sliders > 0 /\ RatLess(FromInt(Result.state.max_combo), thresh)
    THEN RatDiv(thresh, FromInt(Max(Result.state.max_combo, 1)))
    ELSE FromInt(0)

\* n100 + n50 + misses of the result's state
breaks == FromInt(Result.state.n100 + Result.state.n50 + Result.state.misses)

\* C19: the effective miss count is max(min(guess, n100 + n50 + misses),
\* misses), guess being thresh / max(state.max_combo, 1) when the map has
\* sliders and state.max_combo < thresh, and 0 otherwise; hence misses <=
\* eff_miss <= n100 + n50 + misses, and eff_miss = misses without sliders.
C19_EffectiveMisses ==
    Calculated =>
        /\ Result.effective_miss_count =
               LET clamped_guess == IF RatLess(breaks, guess) THEN breaks ELSE guess
               IN IF RatLess(clamped_guess, FromInt(Result.state.misses))
                  THEN FromInt(Result.state.misses) ELSE clamped_guess
        /\ ~RatLess(Result.effective_miss_count, FromInt(Result.state.misses))
        /\ ~RatLess(breaks, Result.effective_miss_count)
        /\ (Result.difficulty.n_sliders = 0) =>
               Result.effective_miss_count = FromInt(Result.state.misses)

\* C19 witness: on a map with a slider the guess lies strictly between the
\* misses and n100 + n50 + misses, and is the effective miss count
C19_Witness ==
    /\ Calculated
    /\ Result.difficulty.n_sliders > 0
    /\ RatLess(FromInt(Result.state.misses), guess) /\ RatLess(guess, breaks)
    /\ Result.effective_miss_count = guess
    /\ Result.effective_miss_count.den # 1

\* ---- generate_state on a full, consistent state ----

\* the state the caller passed through state(s)
Passed ==
    [max_combo |-> Unwrap(perf.combo), n300 |-> Unwrap(perf.n300),
     n100 |-> Unwrap(perf.n100), n50 |-> Unwrap(perf.n50), misses |-> Unwrap(perf.misses)]

\* state(s) was called and no accuracy was given
FullState ==
    /\ IsSome(perf.combo) /\ IsSome(perf.n300) /\ IsSome(perf.n100)
    /\ IsSome(perf.n50) /\ IsSome(perf.misses)
    /\ ~IsSome(perf.acc)

\* s accounts for every passed object and its combo fits the map
Consistent ==
    /\ FullState
    /\ total_hits(Passed) = state_n_objects(perf, resolve_attrs(perf))
    /\ Passed.max_combo <= resolve_attrs(perf).max_combo - Passed.misses

\* C27: a full state passed through state(s) without accuracy that accounts for
\* exactly min(passed_objects, n_objects) objects and whose max_combo is at most
\* attrs.max_combo - misses is returned unchanged by generate_state, and
\* calling generate_state on the calculator again returns the same state.
C27_IdentityOnConsistent ==
    (Generated /\ Consistent) =>
        /\ State = Passed
        /\ generate_state(perf) = State

C27_Witness ==
    /\ Generated
    /\ Consistent
    /\ IsSome(perf.passed_objects)
    /\ Unwrap(perf.passed_objects) < n_objects_of(resolve_attrs(perf))
    /\ Passed.misses > 0 /\ Passed.n100 > 0 /\ Passed.n50 > 0 /\ Passed.n300 > 0
    /\ Passed.max_combo > 0
    /\ State = Passed

\* ---- the priority shift of the accuracy search ----

\* an accuracy was given and none of n300, n100, n50
NoneFixed == IsSome(perf.acc) /\ n_fixed(perf) = 0

\* the counts the double search settled on, before the priority shift
Searched ==
    LET attrs == resolve_attrs(perf)
        n_objects == state_n_objects(perf, attrs)
        misses == state_misses(perf, attrs)
    IN search_none_fixed(Unwrap(perf.acc), n_objects, misses, n_objects - misses,
                         [n300 |-> 0, n100 |-> 0, n50 |-> 0])

hits(s) == s.n300 + s.n100 + s.n50

weighted(s) == 6 * s.n300 + 2 * s.n100 + s.n50

\* the shift keeps the number of hits and the weighted total and no count
\* falls below zero
shift_preserves(before, after) ==
    /\ hits(after) = hits(before)
    /\ weighted(after) = weighted(before)
    /\ after.n300 >= 0 /\ after.n100 >= 0 /\ after.n50 >= 0

same_accuracy(a, b, misses) ==
    LET x == accuracy(a.n300, a.n100, a.n50, misses)
        y == accuracy(b.n300, b.n100, b.n50, misses)
    IN x.num * y.den = y.num * x.den

\* C28: with an accuracy and no count fixed, the priority shift of either
\* priority leaves n300 + n100 + n50 and 6*n300 + 2*n100 + n50 unchanged and
\* takes no count below zero, the generated state is the shifted search result,
\* and the BestCase and WorstCase states have the same accuracy.
C28_PriorityShift ==
    (Generated /\ NoneFixed) =>
        LET best == priority_shift(BestCase, Searched)
            worst == priority_shift(WorstCase, Searched)
            mine == [n300 |-> State.n300, n100 |-> State.n100, n50 |-> State.n50]
        IN /\ shift_preserves(Searched, best)
           /\ shift_preserves(Searched, worst)
           /\ mine = (IF perf.hitresult_priority = BestCase THEN best ELSE worst)
           /\ same_accuracy(best, worst, State.misses)

\* both shifts move counts: the search found at least four 50s next to a 300,
\* or at least five 100s
C28_Witness ==
    /\ Generated
    /\ NoneFixed
    /\ perf.hitresult_priority = BestCase
    /\ State.n100 >= Searched.n100 + 5
    /\ State.misses > 0

\* ---- conversion to the mode a Converted already has ----

\* C29: c.try_convert::<M>() on a Converted<M> c returns Ok of a value equal
\* to c, with the same map and the same is_convert, also when c was produced
\* by a real conversion.
C29_SameModeIdentity ==
    convOut # None =>
        LET o == Unwrap(convOut)
        IN (o.op = "try_convert" /\ o.to = o.input.mode) =>
               /\ o.ok
               /\ Converted_eq(o.value, o.input)
               /\ o.value.map.map = o.input.map.map
               /\ o.value.is_convert = o.input.is_convert

\* ---- the rhythm skill's circle count ----

\* C25: whenever difficulty() reads rhythm.difficulty_value the rhythm skill's
\* circle_count is at least 1 and the accuracy rating is a finite number, for
\* every map and passed_objects value.
C25_CircleCount ==
    diffOut # None =>
        /\ Calc.values.skills.circle_count >= 1
        /\ Calc.attrs.accuracy = Pos

-----------------------------------------------------------------------------
(* The repeated-doubles decay of RhythmComplexity (skills/rhythm.rs), as a   *)
(* function of the history prev_doubles and the index of the current object. *)
(* prev_doubles holds the index of every object that got the bonus and -1    *)
(* for every offbeat with flow.  The build decides what an overflowing       *)
(* usize subtraction does: it panics with overflow checks and wraps without. *)

\* longest history of doubles
MaxDoubles == 12

\* prev_doubles.len() - 10 on usize: None stands for the panic
usize_sub(a, b, overflow_checks) ==
    IF a >= b THEN Some(a - b)
    ELSE IF overflow_checks THEN None
    ELSE Some((a - b) % (2 ^ USIZE_BITS))

\* one round of the loop: rhythm_bonus *= 1.0 - 0.5 * (idx - prev_double)^0.9
\* for a positive entry and rhythm_bonus = 5.0 else; the bonus is kept as the
\* distances whose factors were multiplied onto 5.0
doubles_round(rhythm_bonus, prev_double, idx) ==
    IF prev_double > 0 THEN Append(rhythm_bonus, idx - prev_double) ELSE <<>>

RECURSIVE doubles_loop(_, _, _, _)
doubles_loop(rhythm_bonus, prev_doubles, i, idx) ==
    IF i > Len(prev_doubles) THEN rhythm_bonus
    ELSE doubles_loop(doubles_round(rhythm_bonus, prev_doubles[i], idx), prev_doubles,
                      i + 1, idx)

\* the first arm of calc_circle_to_circle_rhythm_bonus: the entries after the
\* skipped ones decay the bonus 5.0 and curr.idx is pushed
repeated_doubles(prev_doubles, idx, overflow_checks) ==
    LET n == usize_sub(Len(prev_doubles), 10, overflow_checks)
    IN IF n = None THEN [panicked |-> TRUE, skipped |-> 0, visited |-> <<>>,
                         rhythm_bonus |-> <<>>, prev_doubles |-> prev_doubles]
       ELSE LET skipped == Min(Max(Unwrap(n), 0), Len(prev_doubles))
            IN [panicked |-> FALSE, skipped |-> skipped,
                visited |-> SubSeq(prev_doubles, skipped + 1, Len(prev_doubles)),
                rhythm_bonus |-> doubles_loop(<<>>, prev_doubles, skipped + 1, idx),
                prev_doubles |-> Append(prev_doubles, idx)]

\* a history of n entries: the indices 2, 4, .. of earlier doubles, with -1
\* in the place `offbeat` when offbeat > 0
history(n, offbeat) == [i \in 1 .. n |-> IF i = offbeat THEN -1 ELSE 2 * i]

DoublesHistories == {history(n, offbeat) : n \in 0 .. MaxDoubles, offbeat \in 0 .. MaxDoubles}

\* the skills are not fed in the runs that evaluate the decay alone
InitDoubles ==
    /\ doubles \in {Some([prev_doubles |-> h, idx |-> 2 * Len(h) + gap, result |-> None]) :
                        h \in DoublesHistories, gap \in {2, 3}}
    /\ skillRun = None
    /\ perf = from_map_or_attrs(default_attrs) /\ ret = None
    /\ GradualIdle /\ ConvIdle /\ DiffIdle

\* the decay is evaluated for the object idx, in a build with or without
\* overflow checks
EvalDoubles ==
    /\ Unwrap(doubles).result = None
    /\ \E overflow_checks \in BOOLEAN :
           doubles' = Some([Unwrap(doubles) EXCEPT
                                !.result = Some(repeated_doubles(Unwrap(doubles).prev_doubles,
                                                                 Unwrap(doubles).idx,
                                                                 overflow_checks))])
    /\ UNCHANGED <<skillRun, perfVars, gradVars, convVars, diffVars>>

NextDoubles == EvalDoubles

SpecDoubles == InitDoubles /\ [][NextDoubles]_vars

\* the last n entries of a sequence
last_entries(s, n) == SubSeq(s, Len(s) - Min(n, Len(s)) + 1, Len(s))

-----------------------------------------------------------------------------
(* The difficulty objects with their distances and flow values               *)
(* (osu/difficulty/object.rs) and the skills fed with them one object at a   *)
(* time (osu/difficulty/skills).  A hit object of these runs has a position  *)
(* on a line, `pos`.  A value that is a product of smoothsteps is kept as a   *)
(* class: Zero, One, or Between when it is not decided to be 0.0 or 1.0.     *)

One == "one"

Between == "between"

RatAdd(a, b) == Rat(a.num * b.den + b.num * a.den, a.den * b.den)

RatLeq(a, b) == a.num * b.den <= b.num * a.den

\* f64::ceil
RatCeil(a) == -((-a.num) \div a.den)

\* a * b on the classes
GMul(a, b) ==
    IF a = Zero \/ b = Zero THEN Zero
    ELSE IF a = One THEN b
    ELSE IF b = One THEN a
    ELSE Between

\* f64::max on the classes
GMax(a, b) ==
    IF a = One \/ b = One THEN One
    ELSE IF a = Zero THEN b
    ELSE IF b = Zero THEN a
    ELSE Between

\* 1.0 - a on the classes
GNot(a) == IF a = Zero THEN One ELSE IF a = One THEN Zero ELSE Between

\* pplus::transition_to_true(x, start, width): 0 for x <= start, 1 for
\* x >= start + width, smooth in between
transition_to_true(x, start, width) ==
    IF RatLeq(x, start) THEN Zero
    ELSE IF RatLeq(RatAdd(start, width), x) THEN One
    ELSE Between

\* pplus::transition_to_false(x, start, width) = 1 - transition_to_true for a
\* start and a width that depend on tanh(..): `start_min` is a lower bound of
\* start and `end_max` an upper bound of start + width
transition_to_false(x, start_min, end_max) ==
    IF x <= start_min THEN One
    ELSE IF x >= end_max THEN Zero
    ELSE Between

\* the 15% tolerance of the ratio helpers
TOLERANCE == Rat(15, 100)

\* pplus::is_ratio_equal(ratio, a, b): |a - ratio * b| <= 0.15 * ratio * b
is_ratio_equal(ratio, a, b) ==
    LET rb == RatMul(ratio, b)
    IN /\ RatLeq(RatSub(rb, RatMul(TOLERANCE, rb)), a)
       /\ RatLeq(a, RatAdd(rb, RatMul(TOLERANCE, rb)))

\* pplus::is_ratio_equal_greater(ratio, a, b): a is ratio * b or more, with
\* the tolerance
is_ratio_equal_greater(ratio, a, b) ==
    LET rb == RatMul(ratio, b)
    IN RatLeq(RatSub(rb, RatMul(TOLERANCE, rb)), a)

\* pplus::is_ratio_equal_less(ratio, a, b): a is ratio * b or less, with the
\* tolerance
is_ratio_equal_less(ratio, a, b) ==
    LET rb == RatMul(ratio, b)
    IN RatLeq(a, RatAdd(rb, RatMul(TOLERANCE, rb)))

\* pplus::is_roughly_equal(a, b): the two times match within the tolerance
is_roughly_equal(a, b) == is_ratio_equal(FromInt(1), a, b)

NORMALIZED_RADIUS == 52

\* the two values of angle_scaling_factor: 1.0, and the value derived from
\* the angle and the predecessor's angle_leniency, which lies in [0.5, 1]
Factor1 == "1.0"

FactorAngle == "angle"

\* the raw and the scaled jump distance of set_distances
set_jump_dist(this, last_object, scaling_factor) ==
    LET raw_jump_dist == Abs(this.base.pos - last_object.pos)
    IN [this EXCEPT !.raw_jump_dist = raw_jump_dist,
                    !.jump_dist = raw_jump_dist * scaling_factor]

\* OsuDifficultyObject::set_flow_values.  distance_offset is
\* (tanh(..) * 1.75 + 2.75) * NORMALIZED_RADIUS for the irregular flow, between
\* 1 and 4.5 radii, and (tanh(..) + 2.0) * NORMALIZED_RADIUS for the base flow,
\* between 1 and 3 radii, where the start of the gate is scaled by a factor of
\* 0.5 to 1.
set_flow_values(this, last_diff_object, last_last_diff_object) ==
    LET roughly == /\ IsSome(last_diff_object)
                   /\ is_roughly_equal(this.strain_time, Unwrap(last_diff_object).strain_time)
        angle_scaling_factor ==
            IF ~IsSome(last_diff_object) THEN Some(Factor1)
            ELSE IF roughly THEN Some(FactorAngle)
            ELSE IF is_ratio_equal_less(Rat(667, 1000), this.strain_time,
                                        Unwrap(last_diff_object).strain_time)
            THEN Some(Factor1)
            ELSE None
        irregular_gate == transition_to_false(this.jump_dist, NORMALIZED_RADIUS,
                                              9 * NORMALIZED_RADIUS)
        irregular1 == IF roughly THEN GMul(irregular_gate, Unwrap(last_diff_object).base_flow)
                      ELSE Zero
        irregular_flow ==
            IF /\ IsSome(last_last_diff_object)
               /\ is_roughly_equal(this.strain_time,
                                   Unwrap(last_last_diff_object).strain_time)
            THEN GMul(irregular_gate, Unwrap(last_last_diff_object).base_flow)
            ELSE irregular1
        speed_flow == transition_to_true(this.stream_bpm, FromInt(90), FromInt(30))
        base_flow ==
            IF IsSome(angle_scaling_factor)
            THEN GMul(speed_flow,
                      transition_to_false(this.jump_dist, NORMALIZED_RADIUS \div 2,
                                          6 * NORMALIZED_RADIUS))
            ELSE Zero
    IN [this EXCEPT !.angle_scaling_factor = angle_scaling_factor,
                    !.base_flow = base_flow,
                    !.angle_leniency = IF IsSome(last_diff_object)
                                       THEN GMul(GNot(base_flow), irregular_flow)
                                       ELSE Zero,
                    !.flow = IF IsSome(last_diff_object) THEN GMax(base_flow, irregular_flow)
                             ELSE base_flow]

\* OsuDifficultyObject::new with the distances and the flow values
OsuDifficultyObject_new_flow(h, last_object, last_last_object, last_diff_object, last_last_diff_object, clock_rate, time_preempt, idx, scaling_factor) ==
    LET t == OsuDifficultyObject_new(h, last_object, last_last_object, clock_rate, idx)
        this == [idx |-> idx, base |-> h, start_time |-> t.start_time,
                 delta_time |-> t.delta_time, strain_time |-> t.strain_time,
                 last_two_strain_time |-> t.last_two_strain_time,
                 raw_jump_dist |-> 0, jump_dist |-> 0, base_flow |-> Zero, flow |-> Zero,
                 travel_time |-> t.travel_time, angle_leniency |-> Zero,
                 angle_scaling_factor |-> None,
                 preempt |-> RatDiv(time_preempt, clock_rate),
                 stream_bpm |-> RatDiv(FromInt(15000), t.strain_time)]
    IN set_flow_values(set_jump_dist(this, last_object, scaling_factor),
                       last_diff_object, last_last_diff_object)

\* for each hit object after the first: OsuDifficultyObject::new with the two
\* hit objects and the two difficulty objects before it
RECURSIVE create_flow_objects(_, _, _, _, _, _)
create_flow_objects(osu_objects, i, diff_objects, clock_rate, time_preempt, scaling_factor) ==
    IF i > Len(osu_objects) - 1 THEN diff_objects
    ELSE create_flow_objects(
             osu_objects, i + 1,
             Append(diff_objects,
                    OsuDifficultyObject_new_flow(
                        osu_objects[i + 1], osu_objects[i],
                        IF i >= 2 THEN Some(osu_objects[i - 1]) ELSE None,
                        IF i >= 2 THEN Some(diff_objects[i - 1]) ELSE None,
                        IF i >= 3 THEN Some(diff_objects[i - 2]) ELSE None,
                        clock_rate, time_preempt, i - 1, scaling_factor)),
             clock_rate, time_preempt, scaling_factor)

\* OsuDifficultySetup::new: time_preempt = hit_windows.ar * clock_rate
OsuDifficultySetup_new(ar, clock_rate, scaling_factor) ==
    [clock_rate |-> clock_rate, time_preempt |-> RatMul(FromInt(ar), clock_rate),
     scaling_factor |-> scaling_factor]

SECTION_LEN == 400

\* OsuStrainSkill::default: no section was opened; `sections` keeps, for
\* every section opened by start_new_section_from, the times the initial
\* strain was decayed from and to
OsuStrainSkill_default ==
    [curr_section_end |-> FromInt(0), strain_peaks |-> <<>>, sections |-> <<>>]

\* Aim::new with the variant flags
Aim_new(flow_aim, jump_aim, raw_aim) ==
    [inner |-> OsuStrainSkill_default, preempt_hit_objects |-> <<>>, last |-> None,
     flow_aim |-> flow_aim, jump_aim |-> jump_aim, raw_aim |-> raw_aim]

\* Stamina::new
Stamina_new == [inner |-> OsuStrainSkill_default]

\* RhythmComplexity::new
RhythmComplexity_new ==
    [circle_count |-> 0, is_previous_offbeat |-> FALSE, prev_doubles |-> <<>>,
     arm |-> None, panicked |-> FALSE]

\* curr.previous(0, diff_objects).map_or(0.0, |prev| prev.start_time)
prev_start_time(curr, diff_objects) ==
    IF curr.idx = 0 THEN FromInt(0) ELSE diff_objects[curr.idx].start_time

\* the while loop of process that also closes a section ending at start_time
RECURSIVE section_loop_inclusive(_, _, _)
section_loop_inclusive(inner, curr, prev_start) ==
    IF RatLeq(inner.curr_section_end, curr.start_time)
    THEN section_loop_inclusive(
             [inner EXCEPT !.strain_peaks = Append(@, inner.curr_section_end),
                           !.sections = Append(@, [from |-> prev_start,
                                                   to |-> inner.curr_section_end]),
                           !.curr_section_end = RatAdd(@, FromInt(SECTION_LEN))],
             curr, prev_start)
    ELSE inner

\* while curr.start_time > curr_section_end { save_curr_peak();
\* start_new_section_from(calculate_initial_strain(curr_section_end, curr));
\* curr_section_end += SECTION_LEN }
RECURSIVE section_loop(_, _, _)
section_loop(inner, curr, prev_start) ==
    IF RatLess(inner.curr_section_end, curr.start_time)
    THEN section_loop(
             [inner EXCEPT !.strain_peaks = Append(@, inner.curr_section_end),
                           !.sections = Append(@, [from |-> prev_start,
                                                   to |-> inner.curr_section_end]),
                           !.curr_section_end = RatAdd(@, FromInt(SECTION_LEN))],
             curr, prev_start)
    ELSE inner

\* the sections of Skill<Aim>::process and Skill<Stamina>::process
strain_sections(inner, curr, diff_objects) ==
    LET first == IF curr.idx = 0
                 THEN [inner EXCEPT !.curr_section_end =
                           FromInt(RatCeil(RatDiv(curr.start_time, FromInt(SECTION_LEN)))
                                       * SECTION_LEN)]
                 ELSE inner
    IN section_loop(first, curr, prev_start_time(curr, diff_objects))

\* OsuDifficultyNoBase::from(curr)
OsuDifficultyNoBase_from(curr) ==
    [idx |-> curr.idx, start_time |-> curr.start_time, base_flow |-> curr.base_flow,
     jump_dist |-> curr.jump_dist]

\* the while loop of calc_reading_multiplier that also drops an object at the
\* edge of the window
RECURSIVE pop_preempt_inclusive(_, _)
pop_preempt_inclusive(preempt_hit_objects, curr) ==
    IF /\ preempt_hit_objects # <<>>
       /\ RatLeq(Head(preempt_hit_objects).start_time, RatSub(curr.start_time, curr.preempt))
    THEN pop_preempt_inclusive(Tail(preempt_hit_objects), curr)
    ELSE preempt_hit_objects

\* while !is_empty() && front().start_time < curr.start_time - curr.preempt
\* { pop_front() }
RECURSIVE pop_preempt(_, _)
pop_preempt(preempt_hit_objects, curr) ==
    IF /\ preempt_hit_objects # <<>>
       /\ RatLess(Head(preempt_hit_objects).start_time,
                  RatSub(curr.start_time, curr.preempt))
    THEN pop_preempt(Tail(preempt_hit_objects), curr)
    ELSE preempt_hit_objects

\* AimEvaluator::calc_reading_multiplier: the objects the reading strain is
\* summed over, and the queue it leaves
calc_reading_multiplier(preempt_hit_objects, curr) ==
    LET window == pop_preempt(preempt_hit_objects, curr)
    IN [before |-> preempt_hit_objects, window |-> window,
        preempt_hit_objects |-> Append(window, OsuDifficultyNoBase_from(curr))]

\* AimEvaluator::calc_flow_aim_value: 0.0 without flow, else a value of the
\* distance curr.jump_dist / NORMALIZED_RADIUS
calc_flow_aim_value(curr) ==
    IF curr.flow = Zero THEN [zero |-> TRUE, distance |-> Rat(0, 1)]
    ELSE [zero |-> FALSE, distance |-> Rat(curr.jump_dist, NORMALIZED_RADIUS)]

\* AimEvaluator::calc_jump_aim_value: 0.0 with full flow, else a value of the
\* distance, raw or scaled
calc_jump_aim_value(curr, raw) ==
    IF curr.flow = One THEN [zero |-> TRUE, distance |-> Rat(0, 1)]
    ELSE [zero |-> FALSE,
          distance |-> Rat(IF raw THEN curr.raw_jump_dist ELSE curr.jump_dist,
                           NORMALIZED_RADIUS)]

\* AimEvaluator::evaluate_diff_of: the terms of the variant, whether they are
\* multiplied by calc_small_circle_bonus, and the reading window
evaluate_diff_of(aim, curr) ==
    LET terms ==
            IF aim.flow_aim
            THEN [flow |-> Some(calc_flow_aim_value(curr)), jump |-> None,
                  small_circle_bonus |-> TRUE]
            ELSE IF aim.jump_aim
            THEN [flow |-> None, jump |-> Some(calc_jump_aim_value(curr, FALSE)),
                  small_circle_bonus |-> TRUE]
            ELSE IF aim.raw_aim
            THEN [flow |-> Some(calc_flow_aim_value(curr)),
                  jump |-> Some(calc_jump_aim_value(curr, TRUE)),
                  small_circle_bonus |-> FALSE]
            ELSE [flow |-> Some(calc_flow_aim_value(curr)),
                  jump |-> Some(calc_jump_aim_value(curr, FALSE)),
                  small_circle_bonus |-> TRUE]
        reading == calc_reading_multiplier(aim.preempt_hit_objects, curr)
    IN [idx |-> curr.idx, terms |-> terms, before |-> reading.before,
        window |-> reading.window, preempt_hit_objects |-> reading.preempt_hit_objects]

\* Skill<Aim>::process
Aim_process(aim, curr, diff_objects) ==
    LET value == evaluate_diff_of(aim, curr)
    IN [aim EXCEPT !.inner = strain_sections(aim.inner, curr, diff_objects),
                   !.preempt_hit_objects = value.preempt_hit_objects,
                   !.last = Some([idx |-> value.idx, terms |-> value.terms,
                                  before |-> value.before, window |-> value.window])]

\* Skill<Stamina>::process
Stamina_process(stamina, curr, diff_objects) ==
    [stamina EXCEPT !.inner = strain_sections(stamina.inner, curr, diff_objects)]

\* curr.flow > 0.8, end_flow > 0.8
above_08(flow) == flow = One

\* RhythmComplexity::calc_circle_to_circle_rhythm_bonus: is_previous_offbeat,
\* the arm taken and prev_doubles
calc_circle_to_circle_rhythm_bonus(rhythm, curr, prev, overflow_checks) ==
    LET is_previous_offbeat ==
            IF /\ is_ratio_equal(Rat(667, 1000), curr.travel_time, prev.travel_time)
               /\ above_08(curr.flow)
            THEN TRUE
            ELSE IF /\ is_ratio_equal(FromInt(1), curr.travel_time, prev.travel_time)
                    /\ above_08(curr.flow)
            THEN ~rhythm.is_previous_offbeat
            ELSE FALSE
    IN IF /\ is_previous_offbeat
          /\ is_ratio_equal_greater(Rat(3, 2), curr.travel_time, prev.travel_time)
       THEN LET r == repeated_doubles(rhythm.prev_doubles, curr.idx, overflow_checks)
            IN [rhythm EXCEPT !.is_previous_offbeat = is_previous_offbeat,
                              !.prev_doubles = r.prev_doubles,
                              !.arm = Some("doubles"),
                              !.panicked = r.panicked]
       ELSE IF is_ratio_equal(Rat(667, 1000), curr.travel_time, prev.travel_time)
       THEN [rhythm EXCEPT !.is_previous_offbeat = is_previous_offbeat,
                           !.prev_doubles = IF above_08(curr.flow) THEN Append(@, -1) ELSE @,
                           !.arm = Some("offbeat")]
       ELSE [rhythm EXCEPT !.is_previous_offbeat = is_previous_offbeat,
                           !.arm = Some("other")]

\* RhythmComplexity::calc_slider_end_flow: distance_offset is between 1 and 3
\* radii and the gate is one radius wide
calc_slider_end_flow(curr) ==
    GMul(transition_to_true(RatDiv(FromInt(15000), curr.travel_time), FromInt(120),
                            FromInt(30)),
         transition_to_false(curr.jump_dist, NORMALIZED_RADIUS, 4 * NORMALIZED_RADIUS))

\* RhythmComplexity::calc_slider_to_circle_rhythm_bonus
calc_slider_to_circle_rhythm_bonus(rhythm, curr) ==
    LET slider_ms == RatSub(curr.strain_time, curr.travel_time)
    IN IF \/ is_ratio_equal(Rat(1, 2), curr.travel_time, slider_ms)
          \/ is_ratio_equal(Rat(1, 4), curr.travel_time, slider_ms)
       THEN [rhythm EXCEPT !.is_previous_offbeat = above_08(calc_slider_end_flow(curr)),
                           !.arm = Some("slider")]
       ELSE [rhythm EXCEPT !.is_previous_offbeat = FALSE, !.arm = Some("slider")]

\* Skill<RhythmComplexity>::process with calc_rhythm_bonus
Rhythm_process(rhythm, curr, diff_objects, overflow_checks) ==
    IF curr.base.kind = Circle
    THEN LET bonus ==
                 IF curr.idx = 0 THEN [rhythm EXCEPT !.arm = None]
                 ELSE IF diff_objects[curr.idx].base.kind = Circle
                 THEN calc_circle_to_circle_rhythm_bonus(rhythm, curr,
                                                         diff_objects[curr.idx],
                                                         overflow_checks)
                 ELSE IF diff_objects[curr.idx].base.kind = Slider
                 THEN calc_slider_to_circle_rhythm_bonus(rhythm, curr)
                 ELSE [rhythm EXCEPT !.is_previous_offbeat = FALSE, !.arm = None]
         IN [bonus EXCEPT !.circle_count = @ + 1]
    ELSE [rhythm EXCEPT !.is_previous_offbeat = FALSE, !.arm = None]

-----------------------------------------------------------------------------
(* Runs that feed the skills one difficulty object at a time, as the loop   *)
(* of DifficultyValues::calculate does *)

\* number of hit objects of a map of these runs
MaxSkillLen == 4

\* the gaps between two hit objects, in ms
SkillGaps == {100, 200, 900}

\* the positions of the circles
SkillPositions == {0, 10, 300}

\* the clock rates of these runs
SkillRates == {Rat(1, 1), Rat(2, 1)}

\* the hit objects that may follow an object at time t: a circle after one of
\* the gaps at one of the positions, or a short slider whose lazy end position
\* is its head
following(t) ==
    {[start_time |-> t + gap, kind |-> Circle, end_time |-> t + gap, pos |-> pos] :
         gap \in SkillGaps, pos \in SkillPositions}
    \cup {[start_time |-> t + 200, kind |-> Slider, end_time |-> t + 200 + Duration,
           pos |-> 0]}

RECURSIVE SkillMapsOfLen(_)
SkillMapsOfLen(n) ==
    IF n = 1 THEN {<<[start_time |-> 0, kind |-> Circle, end_time |-> 0, pos |-> 0]>>}
    ELSE UNION {{Append(m, h) : h \in following(m[Len(m)].start_time)} :
                    m \in SkillMapsOfLen(n - 1)}

SkillMaps == UNION {SkillMapsOfLen(n) : n \in 1 .. MaxSkillLen}

\* the preempt times hit_windows.ar of the maps, in ms: one gap long, so that
\* an object can start exactly at the edge of the window
SkillPreempts == {200}

\* the scaling factors with the small circle bonus
ScalingFactors == {2}

\* the skills of OsuSkills::new and the difficulty objects of the map, none
\* of them processed
SkillRun_new(map, setup) ==
    [setup |-> setup,
     diff_objects |-> create_flow_objects(map, 1, <<>>, setup.clock_rate,
                                          setup.time_preempt, setup.scaling_factor),
     processed |-> 0,
     aim |-> Aim_new(FALSE, FALSE, FALSE),
     flow_aim |-> Aim_new(TRUE, FALSE, FALSE),
     jump_aim |-> Aim_new(FALSE, TRUE, FALSE),
     raw_aim |-> Aim_new(FALSE, FALSE, TRUE),
     stamina |-> Stamina_new,
     rhythm |-> RhythmComplexity_new]

InitSkills ==
    /\ skillRun \in {Some(SkillRun_new(map, OsuDifficultySetup_new(ar, clock_rate,
                                                                  scaling_factor))) :
                        map \in SkillMaps, ar \in SkillPreempts, clock_rate \in SkillRates,
                        scaling_factor \in ScalingFactors}
    /\ doubles = None
    /\ perf = from_map_or_attrs(default_attrs) /\ ret = None
    /\ GradualIdle /\ ConvIdle /\ DiffIdle

\* one round of the loop of DifficultyValues::calculate: every skill
\* processes the next difficulty object
ProcessObject ==
    /\ Unwrap(skillRun).processed < Len(Unwrap(skillRun).diff_objects)
    /\ ~Unwrap(skillRun).rhythm.panicked
    /\ \E overflow_checks \in BOOLEAN :
           LET run == Unwrap(skillRun)
               curr == run.diff_objects[run.processed + 1]
           IN skillRun' = Some([run EXCEPT
                  !.processed = @ + 1,
                  !.aim = Aim_process(@, curr, run.diff_objects),
                  !.raw_aim = Aim_process(@, curr, run.diff_objects),
                  !.jump_aim = Aim_process(@, curr, run.diff_objects),
                  !.flow_aim = Aim_process(@, curr, run.diff_objects),
                  !.stamina = Stamina_process(@, curr, run.diff_objects),
                  !.rhythm = Rhythm_process(@, curr, run.diff_objects, overflow_checks)])
    /\ UNCHANGED <<doubles, perfVars, gradVars, convVars, diffVars>>

NextSkills == ProcessObject

SpecSkills == InitSkills /\ [][NextSkills]_vars

\* the run of the skills and the object processed last
Run == Unwrap(skillRun)

Curr == Run.diff_objects[Run.processed]

\* every flow value of the runs is decided: 0.0 or 1.0
FlowsDecided ==
    skillRun # None =>
        \A i \in DOMAIN Run.diff_objects :
            /\ Run.diff_objects[i].base_flow \in {Zero, One}
            /\ Run.diff_objects[i].flow \in {Zero, One}

\* ---- Claims about the skills, checked under SpecSkills ----

\* the first section end, ceil(start_time_0 / 400) * 400: the least multiple
\* of 400 that is not before the first difficulty object
first_section_end ==
    LET start_0 == Run.diff_objects[1].start_time
    IN CHOOSE e \in {k * SECTION_LEN :
                        k \in 0 .. ((start_0.num \div start_0.den) \div SECTION_LEN) + 1} :
           /\ RatLeq(start_0, FromInt(e))
           /\ RatLess(FromInt(e - SECTION_LEN), start_0)

\* the sections of one strain skill after process(Curr)
sections_hold(inner) ==
    LET section_end == inner.curr_section_end
    IN /\ section_end.den = 1 /\ section_end.num % SECTION_LEN = 0
       /\ RatLeq(Curr.start_time, section_end)
       /\ RatLess(section_end, RatAdd(Curr.start_time, FromInt(SECTION_LEN)))
       /\ Len(inner.strain_peaks) * SECTION_LEN = section_end.num - first_section_end
       /\ Len(inner.sections) = Len(inner.strain_peaks)
       /\ \A k \in DOMAIN inner.sections :
              /\ inner.sections[k].to = FromInt(first_section_end + (k - 1) * SECTION_LEN)
              /\ RatLess(inner.sections[k].to, Curr.start_time)
              /\ \E i \in 2 .. Run.processed :
                     /\ RatLess(inner.sections[k].to, Run.diff_objects[i].start_time)
                     /\ RatLeq(Run.diff_objects[i - 1].start_time, inner.sections[k].to)
                     /\ inner.sections[k].from = Run.diff_objects[i - 1].start_time

\* C21: in the Aim and Stamina skills the first section end is
\* ceil(start_time_0 / 400) * 400; after every process(curr) the section end
\* is a multiple of 400 with curr.start_time <= section_end <
\* curr.start_time + 400, one peak was saved and one section opened for each
\* 400 ms boundary strictly before curr.start_time, so the number of saved
\* peaks is (section_end - first_section_end) / 400, and the initial strain of
\* each section is decayed from the previous object's start time to the
\* boundary.
C21_StrainSections ==
    (skillRun # None /\ Run.processed >= 1) =>
        /\ sections_hold(Run.aim.inner)
        /\ sections_hold(Run.flow_aim.inner)
        /\ sections_hold(Run.jump_aim.inner)
        /\ sections_hold(Run.raw_aim.inner)
        /\ sections_hold(Run.stamina.inner)

\* C21 witness: the last object crossed two boundaries or more and lies
\* inside its section
C21_Witness ==
    /\ skillRun # None
    /\ Run.processed >= 2
    /\ RatLess(Curr.start_time, Run.stamina.inner.curr_section_end)
    /\ RatLess(RatAdd(Run.diff_objects[Run.processed - 1].start_time,
                      FromInt(2 * SECTION_LEN)),
               Curr.start_time)
    /\ Len(Run.stamina.inner.strain_peaks) >= 2
    /\ Len(Run.aim.inner.strain_peaks) >= 2
    /\ first_section_end = SECTION_LEN

\* the indices of the objects before Curr that start inside its preempt time
in_preempt ==
    {j \in 0 .. Curr.idx - 1 :
         RatLeq(RatSub(Curr.start_time, Curr.preempt), Run.diff_objects[j + 1].start_time)}

\* the reading window of one Aim skill when the multiplier of Curr was computed
window_holds(aim) ==
    LET e == Unwrap(aim.last)
    IN /\ e.idx = Curr.idx
       /\ Len(e.window) = Cardinality(in_preempt)
       /\ \A k \in DOMAIN e.window :
              /\ e.window[k].idx \in in_preempt
              /\ e.window[k] = OsuDifficultyNoBase_from(Run.diff_objects[e.window[k].idx + 1])
              /\ k > 1 => e.window[k - 1].idx < e.window[k].idx
       /\ \E n \in 0 .. Len(e.before) : e.window = SubSeq(e.before, n + 1, Len(e.before))
       /\ aim.preempt_hit_objects = Append(e.window, OsuDifficultyNoBase_from(Curr))

\* C22: when the reading multiplier of object i is computed, the window of
\* each Aim skill holds exactly the earlier processed objects j < i with
\* start_time_j >= start_time_i - preempt_i, in index order; entries leave at
\* the front only, and object i is appended after its multiplier was
\* computed, so it is not part of its own window.
C22_ReadingWindow ==
    (skillRun # None /\ Run.processed >= 1) =>
        /\ window_holds(Run.aim)
        /\ window_holds(Run.flow_aim)
        /\ window_holds(Run.jump_aim)
        /\ window_holds(Run.raw_aim)

\* C22 witness: an object left the window and one that starts exactly preempt
\* before the current object stayed
C22_Witness ==
    /\ skillRun # None
    /\ Run.processed >= 3
    /\ Len(Unwrap(Run.raw_aim.last).window) >= 1
    /\ Len(Unwrap(Run.aim.last).window) < Len(Unwrap(Run.aim.last).before)
    /\ Unwrap(Run.aim.last).window[1].start_time = RatSub(Curr.start_time, Curr.preempt)

\* the terms of the Aim skills for Curr
Terms(aim) == Unwrap(aim.last).terms

\* the term is 0.0 or takes the distance d / NORMALIZED_RADIUS
takes(term, d) == term.zero \/ term.distance = Rat(d, NORMALIZED_RADIUS)

\* C23 as stated: the raw variant is flow(raw = true) + jump(raw = true), both
\* terms taking raw_jump_dist, without the small-circle bonus; the base, flow
\* and jump variants take the scaled jump_dist and are multiplied by the
\* small-circle bonus.
C23_AimVariants ==
    (skillRun # None /\ Run.processed >= 1) =>
        /\ takes(Unwrap(Terms(Run.raw_aim).flow), Curr.raw_jump_dist)
        /\ takes(Unwrap(Terms(Run.raw_aim).jump), Curr.raw_jump_dist)
        /\ ~Terms(Run.raw_aim).small_circle_bonus
        /\ takes(Unwrap(Terms(Run.aim).flow), Curr.jump_dist)
        /\ takes(Unwrap(Terms(Run.aim).jump), Curr.jump_dist)
        /\ Terms(Run.aim).small_circle_bonus
        /\ takes(Unwrap(Terms(Run.flow_aim).flow), Curr.jump_dist)
        /\ Terms(Run.flow_aim).jump = None
        /\ Terms(Run.flow_aim).small_circle_bonus
        /\ takes(Unwrap(Terms(Run.jump_aim).jump), Curr.jump_dist)
        /\ Terms(Run.jump_aim).flow = None
        /\ Terms(Run.jump_aim).small_circle_bonus

\* the object before the difficulty object o of the run: the previous
\* difficulty object, None for the first
last_diff_object(o) ==
    IF o.idx = 0 THEN None ELSE Some(Run.diff_objects[o.idx])

\* the claimed base_flow: speed_flow times the falling smoothstep of jump_dist
\* from distance_offset * angle_scaling_factor over distance_offset; for a
\* factor in [0.5, 1] and distance_offset in (1, 3) * NORMALIZED_RADIUS the
\* smoothstep starts at NORMALIZED_RADIUS / 2 or later and ends before
\* 6 * NORMALIZED_RADIUS
base_flow_formula(o) ==
    GMul(transition_to_true(o.stream_bpm, FromInt(90), FromInt(30)),
         transition_to_false(o.jump_dist, NORMALIZED_RADIUS \div 2,
                             6 * NORMALIZED_RADIUS))

\* the claimed angle_scaling_factor: 1 by default, the angle-derived value
\* only when the previous difficulty object has roughly the same strain_time
factor_claimed(o) ==
    IF /\ IsSome(last_diff_object(o))
       /\ is_roughly_equal(o.strain_time, Unwrap(last_diff_object(o)).strain_time)
    THEN Some(FactorAngle)
    ELSE Some(Factor1)

\* C24 as stated: every difficulty object has base_flow = speed_flow *
\* smoothstep_down(jump_dist, distance_offset * angle_scaling_factor,
\* distance_offset) with angle_scaling_factor 1 by default and angle-derived
\* only after a predecessor of roughly equal strain_time; an object neither
\* roughly equal to nor clearly shorter than its predecessor gets factor 1.
C24_BaseFlow ==
    skillRun # None =>
        \A i \in 1 .. Len(Run.diff_objects) :
            LET o == Run.diff_objects[i]
            IN /\ o.angle_scaling_factor = factor_claimed(o)
               /\ o.base_flow = base_flow_formula(o)

\* travel times of consecutive circles, in ms, from MIN_DELTA_TIME up
TravelTimes == {25, 30, 40, 50, 60, 67, 75, 100, 133, 150, 200, 300, 400}

\* the rhythm skill of the run before its next circle, in either state of
\* is_previous_offbeat
rhythm_before(offbeat) ==
    [(IF skillRun # None THEN Run.rhythm ELSE RhythmComplexity_new)
        EXCEPT !.is_previous_offbeat = offbeat, !.panicked = FALSE]

\* C26 as stated: there are consecutive circles at which is_previous_offbeat
\* is true and curr.travel_time is at least about 1.5 times prev.travel_time,
\* so that the repeated-doubles arm gives the bonus 5 and records the index in
\* prev_doubles.
C26_DoublesReachable ==
    \E prev_tt \in TravelTimes, curr_tt \in TravelTimes, offbeat \in BOOLEAN,
       flow \in {Zero, Between, One}, overflow_checks \in BOOLEAN :
        LET curr == [idx |-> MaxSkillLen, travel_time |-> FromInt(curr_tt),
                     flow |-> flow]
            prev == [idx |-> MaxSkillLen - 1, travel_time |-> FromInt(prev_tt)]
            after == calc_circle_to_circle_rhythm_bonus(rhythm_before(offbeat),
                                                        curr, prev, overflow_checks)
        IN after.arm = Some("doubles")

\* no circle of a run takes the repeated-doubles arm
NoDoublesArm == skillRun # None => Run.rhythm.arm # Some("doubles")

====
